---- MODULE Spec2Model ----
(***************************************************************************)
(* A model of the analysis engine of strava_radial:                        *)
(*   - routeMatching.ts: route signatures, the signature comparison, the   *)
(*     DBSCAN pass over the similarity matrix, findSimilarRoutes;          *)
(*   - clustering.ts: standardize, kMeans, silhouetteScore, findOptimalK,  *)
(*     clusterActivities.                                                  *)
(*                                                                         *)
(* Numbers.  A JavaScript number is modelled as an exact rational, or as   *)
(* one of the IEEE specials NaN, +Infinity, -Infinity: a record            *)
(* [k, n, d] with k = "num" (the value n/d in lowest terms, d > 0), "nan"  *)
(* or "inf" (n = 1 or -1).  Rounding of the floating-point operations is   *)
(* not modelled; the propagation of NaN and Infinity is.                   *)
(*                                                                         *)
(* Geometry.  Route points lie on one meridian (lng = 0), LatStepMeters    *)
(* apart per unit of lat.  On a meridian haversineDistance is exactly      *)
(* R * |dLat| and calculateBearing is exactly 0 (north, or no movement)    *)
(* or 180 (south), so both functions are modelled without trigonometry.    *)
(***************************************************************************)
EXTENDS Integers, Sequences, FiniteSets, TLC

\* ------------------------------------------------------------------------
\* Bounds of the model
\* ------------------------------------------------------------------------

\* most points of a route in the exhaustive two-route runs
MaxPoints == 3
\* route points have lat in 0..MaxLat
MaxLat == 1
\* most routes handed to findSimilarRoutes in the catalogue runs
MaxRoutes == 3
\* most points of a distance matrix handed to dbscan directly
MaxMatrix == 4
\* largest minSamples handed to dbscan directly
MaxMinSamples == 3
\* most bearings of a sequence handed to compareBearingSequences directly
MaxBearings == 3
\* how many similar routes the scenario of section 8 holds
ScenarioSimilar == 5
\* longest coordinate sequence handed to the down-sampling step
MaxTrack == 160
\* metres between two neighbouring lat values of the model's meridian
LatStepMeters == 2500
\* Math.sqrt of a number that is no square is rounded down to 1 / SqrtScale
SqrtScale == 10
RoundScale == 1000
MaxActivities == 3
MaxMiles == 2
MaxK == 3
MaxLabel == 2
MaxColorIndex == 25
MaxShift == 2
\* seeds of the generator tried: 0..MaxSeed
MaxSeed == 20
\* fetchStreamsBatch: at most MaxIds activity ids, concurrency up to MaxConcurrency
MaxIds == 3
MaxConcurrency == 2

\* ------------------------------------------------------------------------
\* Program constants
\* ------------------------------------------------------------------------

\* routeMatching.ts:75  Math.min(50, points.length)
TargetPoints == 50
\* routeMatching.ts:157 Math.min(bearings1.length, bearings2.length, 30)
BearingTargetLen == 30
\* routeMatching.ts:134 (startDist + endDist) / 10000
LocationNorm == 10000
\* clustering.ts:35 (this.seed * 9301 + 49297) % 233280
RngMultiplier == 9301
RngIncrement == 49297
RngModulus == 233280
\* clustering.ts:88 maxIterations = 100, seed = 42
DefaultMaxIterations == 100
DefaultSeed == 42

\* ------------------------------------------------------------------------
\* JavaScript numbers
\* ------------------------------------------------------------------------

AbsInt(i) == IF i < 0 THEN -i ELSE i
MinInt(a, b) == IF a < b THEN a ELSE b

RECURSIVE Gcd(_, _)
Gcd(a, b) == IF b = 0 THEN a ELSE Gcd(b, a % b)

NaN == [k |-> "nan", n |-> 0, d |-> 1]
PosInf == [k |-> "inf", n |-> 1, d |-> 1]
NegInf == [k |-> "inf", n |-> -1, d |-> 1]
\* Number.MAX_VALUE, the largest finite double and an integer; of its
\* arithmetic only the product in SeededRandom.next is modelled
MaxValue == [k |-> "max", n |-> 1, d |-> 1]

\* the rational n/d (d # 0) in lowest terms
Q(n, d) ==
    LET g == Gcd(AbsInt(n), AbsInt(d))
        s == IF d < 0 THEN -1 ELSE 1
    IN  [k |-> "num", n |-> (s * n) \div g, d |-> (s * d) \div g]

Z(i) == [k |-> "num", n |-> i, d |-> 1]

IsNaN(x) == x.k = "nan"
IsNum(x) == x.k = "num"
IsInf(x) == x.k = "inf"
Sign(x) == IF x.n > 0 THEN 1 ELSE IF x.n < 0 THEN -1 ELSE 0
Inf(s) == IF s > 0 THEN PosInf ELSE NegInf

Neg(x) == IF IsNaN(x) THEN NaN ELSE [x EXCEPT !.n = -x.n]

\* a number is a double: the model keeps it exact as long as the products
\* of an operation stay below 2^30, and else works on operands rounded down
\* to a multiple of 1 / RoundScale
Fits(a, b) == a = 0 \/ b = 0 \/ AbsInt(a) <= ((1024 * 1024 * 1024) - 1) \div AbsInt(b)

Coarse(x) ==
    LET f == (x.d \div (1000 * RoundScale)) + 1
        d2 == x.d \div f
        ip == x.n \div x.d
        rem2 == (x.n % x.d) \div f
    IN  Q(ip * RoundScale + (rem2 * RoundScale) \div d2, RoundScale)

\* x + y on finite numbers
AddNum(x, y) ==
    LET g == Gcd(x.d, y.d)
    IN  Q(x.n * (y.d \div g) + y.n * (x.d \div g), (x.d \div g) * y.d)

AddFits(x, y) ==
    LET g == Gcd(x.d, y.d)
    IN  Fits(x.n, y.d \div g) /\ Fits(y.n, x.d \div g) /\ Fits(x.d \div g, y.d)

\* x + y
Add(x, y) ==
    IF IsNaN(x) \/ IsNaN(y) THEN NaN
    ELSE IF IsInf(x) /\ IsInf(y) THEN (IF x.n = y.n THEN x ELSE NaN)
    ELSE IF IsInf(x) THEN x
    ELSE IF IsInf(y) THEN y
    ELSE IF AddFits(x, y) THEN AddNum(x, y)
    ELSE AddNum(Coarse(x), Coarse(y))

\* x - y
Sub(x, y) == Add(x, Neg(y))

\* x * y on finite numbers
MulNum(x, y) ==
    LET g1 == Gcd(AbsInt(x.n), y.d)
        g2 == Gcd(AbsInt(y.n), x.d)
    IN  Q((x.n \div g1) * (y.n \div g2), (x.d \div g2) * (y.d \div g1))

MulFits(x, y) ==
    LET g1 == Gcd(AbsInt(x.n), y.d)
        g2 == Gcd(AbsInt(y.n), x.d)
    IN  Fits(x.n \div g1, y.n \div g2) /\ Fits(x.d \div g2, y.d \div g1)

\* x * y   (0 * Infinity is NaN)
Mul(x, y) ==
    IF IsNaN(x) \/ IsNaN(y) THEN NaN
    ELSE IF IsInf(x) \/ IsInf(y)
         THEN (IF Sign(x) * Sign(y) = 0 THEN NaN ELSE Inf(Sign(x) * Sign(y)))
    ELSE IF MulFits(x, y) THEN MulNum(x, y)
    ELSE MulNum(Coarse(x), Coarse(y))

\* x / y   (0 / 0 is NaN, x / 0 is an Infinity, Infinity / Infinity is NaN)
Div(x, y) ==
    IF IsNaN(x) \/ IsNaN(y) THEN NaN
    ELSE IF IsInf(x) THEN (IF IsInf(y) THEN NaN
                           ELSE Inf(x.n * (IF Sign(y) < 0 THEN -1 ELSE 1)))
    ELSE IF IsInf(y) THEN Z(0)
    ELSE IF y.n = 0 THEN (IF x.n = 0 THEN NaN ELSE Inf(Sign(x)))
    ELSE Mul(x, Q(y.d, y.n))

\* x < y on finite numbers
LtNum(x, y) ==
    LET g == Gcd(x.d, y.d)
    IN  x.n * (y.d \div g) < y.n * (x.d \div g)

\* x < y, x <= y: false as soon as one side is NaN
Lt(x, y) ==
    IF IsNaN(x) \/ IsNaN(y) THEN FALSE
    ELSE IF IsInf(x) THEN x.n < 0 /\ ~(IsInf(y) /\ y.n < 0)
    ELSE IF IsInf(y) THEN y.n > 0
    ELSE IF AddFits(x, y) THEN LtNum(x, y)
    ELSE LtNum(Coarse(x), Coarse(y))

Le(x, y) == ~IsNaN(x) /\ ~IsNaN(y) /\ (x = y \/ Lt(x, y))
Gt(x, y) == Lt(y, x)
Ge(x, y) == Le(y, x)

\* Math.min(x, y), Math.max(x, y): NaN as soon as one argument is NaN
MathMin(x, y) == IF IsNaN(x) \/ IsNaN(y) THEN NaN ELSE IF Lt(y, x) THEN y ELSE x
MathMax(x, y) == IF IsNaN(x) \/ IsNaN(y) THEN NaN ELSE IF Lt(x, y) THEN y ELSE x

\* Math.abs(x)
MathAbs(x) == IF IsNaN(x) THEN NaN ELSE [x EXCEPT !.n = AbsInt(x.n)]

\* Math.floor(x)
MathFloor(x) == IF IsNum(x) THEN Z(x.n \div x.d) ELSE x

\* x % m for a positive integer m: the remainder has the sign of x
JsMod(x, m) ==
    IF ~IsNum(x) THEN NaN
    ELSE LET a == AbsInt(x.n)
             r == Q(a % (m * x.d), x.d)
         IN  IF x.n < 0 THEN Neg(r) ELSE r

\* a[idx] read as a number: undefined (idx NaN, fractional or out of range)
\* becomes NaN in the arithmetic that follows
At(a, idx) ==
    IF IsNum(idx) /\ idx.d = 1 /\ idx.n >= 0 /\ idx.n < Len(a)
    THEN a[idx.n + 1] ELSE NaN

RECURSIVE ISqrtIn(_, _, _)
\* the largest r in lo..hi with r * r <= m
ISqrtIn(m, lo, hi) ==
    IF lo >= hi THEN lo
    ELSE LET mid == (lo + hi + 1) \div 2
         IN  IF mid * mid <= m THEN ISqrtIn(m, mid, hi) ELSE ISqrtIn(m, lo, mid - 1)

ISqrt(m) == ISqrtIn(m, 0, MinInt(m, 46340))

\* Math.sqrt(x): exact where x is the square of a rational, and else rounded
\* down to a multiple of 1 / SqrtScale
MathSqrt(x) ==
    IF IsNaN(x) THEN NaN
    ELSE IF IsInf(x) THEN (IF x.n > 0 THEN PosInf ELSE NaN)
    ELSE IF x.n < 0 THEN NaN
    ELSE LET rn == ISqrt(x.n)
             rd == ISqrt(x.d)
         IN  IF rn * rn = x.n /\ rd * rd = x.d THEN Q(rn, rd)
             ELSE IF Fits(x.n, SqrtScale * SqrtScale)
             THEN Q(ISqrt((x.n * SqrtScale * SqrtScale) \div x.d), SqrtScale)
             ELSE Q(ISqrt((Coarse(x).n * SqrtScale * SqrtScale) \div Coarse(x).d), SqrtScale)

\* a truthy number: neither 0 nor NaN (undefined is modelled as 0)
Truthy(x) == ~IsNaN(x) /\ x # Z(0)

\* the finite numbers of the closed interval [0, 1]
InUnitInterval(x) == IsNum(x) /\ x.n >= 0 /\ x.n <= x.d

\* ------------------------------------------------------------------------
\* routeMatching.ts: signatures
\* ------------------------------------------------------------------------

Point(lat) == [lat |-> lat, lng |-> 0]

\* calculateBearing for two points of one meridian, in degrees
CalculateBearing(p1, p2) == IF p2.lat < p1.lat THEN Z(180) ELSE Z(0)

\* haversineDistance for two points of one meridian, in metres
HaversineDistance(p1, p2) == Z(LatStepMeters * AbsInt(p2.lat - p1.lat))

\* the indices (0-based) of the points createRouteSignature samples from a
\* sequence of n >= 2 points; the code compares the last sampled point and the
\* last point by object identity, which is their index here
SampledIndicesSkipLast(n) ==
    LET targetPoints == MinInt(TargetPoints, n)
        step == n \div targetPoints
    IN  [j \in 1..(((n - 1) \div step) + 1) |-> (j - 1) * step]

SampledIndices(n) ==
    LET strided == SampledIndicesSkipLast(n)
    IN  IF strided[Len(strided)] # n - 1 THEN Append(strided, n - 1) ELSE strided

RECURSIVE SumSegments(_, _, _)
\* the length of the sampled track between its points lo and hi + 1, summed
\* by halves to keep the evaluation shallow
SumSegments(sp, lo, hi) ==
    IF lo > hi THEN Z(0)
    ELSE IF lo = hi THEN HaversineDistance(sp[lo], sp[lo + 1])
    ELSE LET mid == (lo + hi) \div 2
         IN  Add(SumSegments(sp, lo, mid), SumSegments(sp, mid + 1, hi))

\* distances: the running sum cumDist after each sampled point
CumulativeDistances(sp) == [j \in 1..Len(sp) |-> SumSegments(sp, 1, j - 1)]

CreateRouteSignature(points) ==
    IF Len(points) < 2
    THEN LET p == IF Len(points) >= 1 THEN points[1] ELSE Point(0)
         IN  [bearings |-> <<>>, distances |-> <<>>, totalDistance |-> Z(0),
              startPoint |-> p, endPoint |-> p]
    ELSE LET idx == SampledIndices(Len(points))
             sp == [j \in 1..Len(idx) |-> points[idx[j] + 1]]
             dist == CumulativeDistances(sp)
         IN  [bearings |-> [j \in 1..(Len(sp) - 1) |-> CalculateBearing(sp[j], sp[j + 1])],
              distances |-> dist,
              totalDistance |-> dist[Len(dist)],
              startPoint |-> points[1],
              endPoint |-> points[Len(points)]]

\* ------------------------------------------------------------------------
\* routeMatching.ts: comparison of signatures
\* ------------------------------------------------------------------------

InterpolateAt(bearings, ratio, i) ==
    LET pos == Mul(Z(i), ratio)
        idx == MathFloor(pos)
        frac == Sub(pos, idx)
    IN  IF Ge(idx, Z(Len(bearings) - 1))
        THEN bearings[Len(bearings)]
        ELSE LET b1 == At(bearings, idx)
                 b2 == At(bearings, Add(idx, Z(1)))
                 wrap == Gt(MathAbs(Sub(b2, b1)), Z(180))
                 c1 == IF wrap /\ Lt(b1, b2) THEN Add(b1, Z(360)) ELSE b1
                 c2 == IF wrap /\ ~Lt(b1, b2) THEN Add(b2, Z(360)) ELSE b2
                 lin == Add(c1, Mul(Sub(c2, c1), frac))
                 m == JsMod(lin, 360)
             IN  IF Lt(m, Z(0)) THEN Add(m, Z(360)) ELSE m

InterpolateBearings(bearings, targetLen) ==
    IF Len(bearings) = 0 THEN [i \in 1..targetLen |-> Z(0)]
    ELSE IF Len(bearings) = targetLen THEN bearings
    ELSE LET ratio == Div(Z(Len(bearings) - 1), Z(targetLen - 1))
         IN  [i \in 1..targetLen |-> InterpolateAt(bearings, ratio, i - 1)]

BearingDiff(a, b) ==
    LET diff == MathAbs(Sub(a, b))
    IN  IF Gt(diff, Z(180)) THEN Sub(Z(360), diff) ELSE diff

RECURSIVE TotalDiff(_, _, _)
TotalDiff(norm1, norm2, m) ==
    IF m = 0 THEN Z(0)
    ELSE Add(TotalDiff(norm1, norm2, m - 1), BearingDiff(norm1[m], norm2[m]))

\* a variant of compareBearingSequences that normalises by the full circle
CompareBearingSequencesBy360(bearings1, bearings2) ==
    LET targetLen == MinInt(MinInt(Len(bearings1), Len(bearings2)), BearingTargetLen)
        norm1 == InterpolateBearings(bearings1, targetLen)
        norm2 == InterpolateBearings(bearings2, targetLen)
    IN  Div(TotalDiff(norm1, norm2, targetLen), Z(360 * targetLen))

CompareBearingSequences(bearings1, bearings2) ==
    LET targetLen == MinInt(MinInt(Len(bearings1), Len(bearings2)), BearingTargetLen)
        norm1 == InterpolateBearings(bearings1, targetLen)
        norm2 == InterpolateBearings(bearings2, targetLen)
    IN  Div(TotalDiff(norm1, norm2, targetLen), Z(180 * targetLen))

\* a variant of the location score that measures the end distance from the
\* first route's end to the second route's start
LocationScoreEndToStart(sig1, sig2) ==
    LET startDist == HaversineDistance(sig1.startPoint, sig2.startPoint)
        endDist == HaversineDistance(sig1.endPoint, sig2.startPoint)
    IN  MathMin(Div(Add(startDist, endDist), Z(LocationNorm)), Z(1))

LocationScore(sig1, sig2) ==
    LET startDist == HaversineDistance(sig1.startPoint, sig2.startPoint)
        endDist == HaversineDistance(sig1.endPoint, sig2.endPoint)
    IN  MathMin(Div(Add(startDist, endDist), Z(LocationNorm)), Z(1))

DistanceScore(sig1, sig2) ==
    LET distRatio == Div(MathAbs(Sub(sig1.totalDistance, sig2.totalDistance)),
                         MathMax(sig1.totalDistance, sig2.totalDistance))
    IN  MathMin(Mul(distRatio, Z(2)), Z(1))

CompareSignatures(sig1, sig2) ==
    IF Len(sig1.bearings) = 0 \/ Len(sig2.bearings) = 0
    THEN Z(1)
    ELSE Add(Add(Mul(LocationScore(sig1, sig2), Q(3, 10)),
                 Mul(DistanceScore(sig1, sig2), Q(2, 10))),
             Mul(CompareBearingSequences(sig1.bearings, sig2.bearings), Q(5, 10)))

\* ------------------------------------------------------------------------
\* routeMatching.ts: dbscan
\* ------------------------------------------------------------------------

\* the values of a sequence, and membership in it (Array.prototype.includes)
Range(s) == {s[j] : j \in 1..Len(s)}
Includes(s, x) == x \in Range(s)

RECURSIVE FilterNotIn(_, _, _)
\* the first m entries of xs that are not in ys, in order
FilterNotIn(xs, ys, m) ==
    IF m = 0 THEN <<>>
    ELSE LET prev == FilterNotIn(xs, ys, m - 1)
         IN  IF Includes(ys, xs[m]) THEN prev ELSE Append(prev, xs[m])

RECURSIVE RangeQueryUpTo(_, _, _, _)
\* the indices i < m (0-based, ascending) with distanceMatrix[idx][i] <= eps
RangeQueryUpTo(dm, e, idx, m) ==
    IF m = 0 THEN <<>>
    ELSE LET prev == RangeQueryUpTo(dm, e, idx, m - 1)
         IN  IF Le(dm[idx + 1][m], e) THEN Append(prev, m - 1) ELSE prev

RECURSIVE RangeQueryNotGreaterUpTo(_, _, _, _)
RangeQueryNotGreaterUpTo(dm, e, idx, m) ==
    IF m = 0 THEN <<>>
    ELSE LET prev == RangeQueryNotGreaterUpTo(dm, e, idx, m - 1)
         IN  IF ~Gt(dm[idx + 1][m], e) THEN Append(prev, m - 1) ELSE prev

\* a variant of rangeQuery that tests !(distance > eps): NaN counts as near
RangeQueryNotGreater(dm, e, idx) == RangeQueryNotGreaterUpTo(dm, e, idx, Len(dm))

\* a variant of rangeQuery whose loop stops one point short (i < n - 1)
RangeQuerySkipLast(dm, e, idx) == RangeQueryUpTo(dm, e, idx, Len(dm) - 1)

RangeQuery(dm, e, idx) == RangeQueryUpTo(dm, e, idx, Len(dm))

RECURSIVE ExpandLoop(_, _, _, _, _, _, _)
\* the while loop of expandCluster from position i of the neighbour list on
ExpandLoop(dm, e, ms, lab, neighbors, cid, i) ==
    IF i >= Len(neighbors) THEN lab
    ELSE LET nIdx == neighbors[i + 1]
         IN  IF lab[nIdx + 1] = -1
             THEN LET nNeighbors == RangeQuery(dm, e, nIdx)
                      grown == IF Len(nNeighbors) >= ms
                               THEN neighbors \o FilterNotIn(nNeighbors, neighbors, Len(nNeighbors))
                               ELSE neighbors
                  IN  ExpandLoop(dm, e, ms, [lab EXCEPT ![nIdx + 1] = cid], grown, cid, i + 1)
             ELSE ExpandLoop(dm, e, ms, lab, neighbors, cid, i + 1)

RECURSIVE ExpandLoopUnvisited(_, _, _, _, _, _, _, _)
ExpandLoopUnvisited(dm, e, ms, lab, neighbors, cid, i, seed) ==
    IF i >= Len(neighbors) THEN lab
    ELSE LET nIdx == neighbors[i + 1]
         IN  IF lab[nIdx + 1] = -1 /\ nIdx > seed
             THEN LET nNeighbors == RangeQuery(dm, e, nIdx)
                      grown == IF Len(nNeighbors) >= ms
                               THEN neighbors \o FilterNotIn(nNeighbors, neighbors, Len(nNeighbors))
                               ELSE neighbors
                  IN  ExpandLoopUnvisited(dm, e, ms, [lab EXCEPT ![nIdx + 1] = cid],
                                          grown, cid, i + 1, seed)
             ELSE ExpandLoopUnvisited(dm, e, ms, lab, neighbors, cid, i + 1, seed)

\* a variant of expandCluster that relabels only the points the scan has not
\* visited yet: a point once left as noise stays noise
ExpandClusterKeepNoise(dm, e, ms, lab, idx, neighbors, cid) ==
    ExpandLoopUnvisited(dm, e, ms, [lab EXCEPT ![idx + 1] = cid], neighbors, cid, 0, idx)

\* a variant of expandCluster that labels the neighbours of idx and absorbs
\* none of theirs
ExpandClusterDirect(dm, e, ms, lab, idx, neighbors, cid) ==
    ExpandLoop(dm, e, Len(dm) + 1, [lab EXCEPT ![idx + 1] = cid], neighbors, cid, 0)

\* expandCluster: the labels after the cluster cid has grown from idx
ExpandCluster(dm, e, ms, lab, idx, neighbors, cid) ==
    ExpandLoop(dm, e, ms, [lab EXCEPT ![idx + 1] = cid], neighbors, cid, 0)

\* a point whose eps-neighbourhood, itself included, has minSamples members
IsCore(dm, e, ms, idx) == Len(RangeQuery(dm, e, idx)) >= ms

\* getPatternColor: the palette entry of a pattern index
PatternPalette ==
    << "#FF3B3B", "#00D9FF", "#FFD93B", "#9D4EDD", "#06FFA5",
       "#FF6B35", "#4361EE", "#FF1E8C", "#00B4D8", "#F72585" >>

\* a % m on integers, m > 0: the remainder has the sign of a
JsRem(a, m) == IF a >= 0 THEN a % m ELSE -((-a) % m)

\* colors[idx]: undefined outside the array
ColorAt(colors, idx) ==
    IF idx \in 0..(Len(colors) - 1) THEN colors[idx + 1] ELSE "undefined"

\* the pattern colour taken from a palette of eight
GetPatternColorOfEight(patternIndex) ==
    ColorAt(PatternPalette, JsRem(patternIndex, 8))

\* getPatternColor
GetPatternColor(patternIndex) ==
    ColorAt(PatternPalette, JsRem(patternIndex, Len(PatternPalette)))

\* getRouteMatchColor: gray for a unique route, else the pattern's colour
GetRouteMatchColor(patternLabel) ==
    IF patternLabel = -1 THEN "#808080" ELSE GetPatternColor(patternLabel)

\* ------------------------------------------------------------------------
\* clustering.ts: the pure parts
\* ------------------------------------------------------------------------

RECURSIVE SumSeq(_, _)
\* the sum of the first m numbers of xs, added left to right from 0
SumSeq(xs, m) == IF m = 0 THEN Z(0) ELSE Add(SumSeq(xs, m - 1), xs[m])

RECURSIVE MinSeq(_, _)
\* Math.min(...xs) over the first m numbers of xs (Infinity for none)
MinSeq(xs, m) == IF m = 0 THEN PosInf ELSE MathMin(MinSeq(xs, m - 1), xs[m])

RECURSIVE MaxIntSeq(_, _)
\* Math.max(...labels) over the first m labels: a number, -Infinity for none
MaxIntSeq(xs, m) == IF m = 0 THEN NegInf ELSE MathMax(MaxIntSeq(xs, m - 1), Z(xs[m]))

RECURSIVE SelectIndices(_, _, _)
\* the indices j <= m (1-based, ascending) of xs with xs[j] = v
SelectIndices(xs, v, m) ==
    IF m = 0 THEN <<>>
    ELSE IF xs[m] = v THEN Append(SelectIndices(xs, v, m - 1), m)
    ELSE SelectIndices(xs, v, m - 1)

\* the generator stepping without its increment
SeededNextWithoutIncrement(seed) ==
    IF IsNum(seed)
    THEN LET r == seed.n % RngModulus
         IN  Z(((((r * (RngMultiplier \div 100)) % RngModulus) * 100)
                  + r * (RngMultiplier % 100)) % RngModulus)
    ELSE NaN

\* SeededRandom.next: the new state of the generator. For an integer seed >= 0
\* within the checker's integers the product is exact, and is taken in two
\* steps to stay within them. MAX_VALUE * 9301 is Infinity, Infinity % 233280
\* is NaN, and NaN stays NaN
SeededNext(seed) ==
    IF IsNum(seed)
    THEN LET r == seed.n % RngModulus
         IN  Z(((((r * (RngMultiplier \div 100)) % RngModulus) * 100)
                  + r * (RngMultiplier % 100) + RngIncrement) % RngModulus)
    ELSE NaN

\* SeededRandom.next: the number returned for the new state
SeededValue(seed) == Div(seed, Z(RngModulus))

\* standardize dividing by the deviation also where it is 0
StandardizeUnguarded(data) ==
    IF Len(data) = 0 THEN [threw |-> TRUE, scaled |-> <<>>, means |-> <<>>, stds |-> <<>>]
    ELSE LET n == Len(data)
             column(j) == [i \in 1..n |-> data[i][j]]
             mean(j) == Div(SumSeq(column(j), n), Z(n))
             squares(j) == [i \in 1..n |-> Mul(Sub(data[i][j], mean(j)), Sub(data[i][j], mean(j)))]
             std(j) == MathSqrt(Div(SumSeq(squares(j), n), Z(n)))
         IN  [threw |-> FALSE,
              scaled |-> [i \in 1..n |-> [j \in 1..Len(data[i]) |->
                            Div(Sub(data[i][j], mean(j)), std(j))]],
              means |-> [j \in 1..Len(data[1]) |-> mean(j)],
              stds |-> [j \in 1..Len(data[1]) |-> std(j)]]

\* standardize: a TypeError for no row (data[0].length), else the z-scores
Standardize(data) ==
    IF Len(data) = 0 THEN [threw |-> TRUE, scaled |-> <<>>, means |-> <<>>, stds |-> <<>>]
    ELSE LET n == Len(data)
             numFeatures == Len(data[1])
             column(j) == [i \in 1..n |-> data[i][j]]
             means == [j \in 1..numFeatures |-> Div(SumSeq(column(j), n), Z(n))]
             squares(j) == [i \in 1..n |-> LET dev == Sub(data[i][j], means[j])
                                           IN  Mul(dev, dev)]
             stds == [j \in 1..numFeatures |-> MathSqrt(Div(SumSeq(squares(j), n), Z(n)))]
         IN  [threw |-> FALSE,
              scaled |-> [i \in 1..n |-> [j \in 1..Len(data[i]) |->
                            IF stds[j] = Z(0) THEN Z(0)
                            ELSE Div(Sub(data[i][j], means[j]), stds[j])]],
              means |-> means,
              stds |-> stds]

\* euclideanDistance
EuclideanDistance(a, b) ==
    LET sq == [i \in 1..Len(a) |->
                  LET dev == Sub(a[i], IF i <= Len(b) THEN b[i] ELSE NaN)
                  IN  Mul(dev, dev)]
    IN  MathSqrt(SumSeq(sq, Len(a)))

\* kMeans lines 104-107: each point's squared distance to its nearest centroid
SeedDistances(data, centroids) ==
    [i \in 1..Len(data) |->
        LET minDist == MinSeq([c \in 1..Len(centroids) |->
                                  EuclideanDistance(data[i], centroids[c])], Len(centroids))
        IN  Mul(minDist, minDist)]

RECURSIVE WalkCumulative(_, _, _, _)
\* kMeans lines 114-122: the first index i >= from (0-based) whose cumulative
\* probability reaches rand; selectedIdx keeps its initial 0 when none does
WalkCumulative(probabilities, rand, from, cumulativeProb) ==
    IF from >= Len(probabilities) THEN 0
    ELSE LET cum == Add(cumulativeProb, probabilities[from + 1])
         IN  IF Le(rand, cum) THEN from
             ELSE WalkCumulative(probabilities, rand, from + 1, cum)

\* kMeans lines 103-126, one round: the index of the next centroid
NextCentroidIndex(data, centroids, rand) ==
    LET distances == SeedDistances(data, centroids)
        sum == SumSeq(distances, Len(distances))
        probabilities == [i \in 1..Len(distances) |-> Div(distances[i], sum)]
    IN  WalkCumulative(probabilities, rand, 0, Z(0))

RECURSIVE SeedCentroids(_, _, _, _, _)
\* kMeans lines 103-126: the centroids c..k-1 are added, one draw each
SeedCentroids(data, k, c, centroids, seed) ==
    IF c >= k THEN [centroids |-> centroids, seed |-> seed]
    ELSE LET s == SeededNext(seed)
             selectedIdx == NextCentroidIndex(data, centroids, SeededValue(s))
         IN  SeedCentroids(data, k, c + 1, Append(centroids, data[selectedIdx + 1]), s)

\* kMeans line 98: the index of the first centroid, a number
FirstIdx(data, seed) == MathFloor(Mul(SeededValue(SeededNext(seed)), Z(Len(data))))

\* kMeans line 99: data[firstIdx] is undefined, and spreading it throws, when
\* firstIdx is not an index of data
FirstIdxMisses(data, seed) ==
    LET firstIdx == FirstIdx(data, seed)
    IN  ~IsNum(firstIdx) \/ firstIdx.n < 0 \/ firstIdx.n >= Len(data)

\* kMeans lines 97-126: the k-means++ initialisation
InitCentroids(data, k, seed) ==
    LET s == SeededNext(seed)
        firstIdx == FirstIdx(data, seed).n
    IN  SeedCentroids(data, k, 1, << data[firstIdx + 1] >>, s)

RECURSIVE NearestFrom(_, _, _, _, _, _)
\* kMeans lines 139-145: the scan of the centroids c..k-1 for the nearest
NearestFrom(point, centroids, k, c, minDist, minCluster) ==
    IF c >= k THEN minCluster
    ELSE LET dist == EuclideanDistance(point, centroids[c + 1])
         IN  IF Lt(dist, minDist) THEN NearestFrom(point, centroids, k, c + 1, dist, c)
             ELSE NearestFrom(point, centroids, k, c + 1, minDist, minCluster)

\* every point assigned to cluster 0
FirstCluster(point, centroids, k) == 0

\* kMeans lines 136-145: the cluster of the nearest centroid, the lowest index
\* among equals, 0 when no distance is below Infinity
NearestCluster(point, centroids, k) == NearestFrom(point, centroids, k, 0, PosInf, 0)

\* the assignment pass reporting a change whatever happened
AssignPassAlwaysChanged(data, centroids, k, lab) ==
    [labels |-> [i \in 1..Len(data) |-> NearestCluster(data[i], centroids, k)],
     changed |-> TRUE]

\* kMeans lines 135-151: the assignment pass
AssignPass(data, centroids, k, lab) ==
    LET new == [i \in 1..Len(data) |-> NearestCluster(data[i], centroids, k)]
    IN  [labels |-> new, changed |-> new # lab]

\* the centroid update without the test of line 158: every centroid becomes
\* the sum of its members over their number
UpdateCentroidsDividing(data, lab, centroids, k, d) ==
    [c \in 1..Len(centroids) |->
        LET members == SelectIndices(lab, c - 1, Len(lab))
        IN  [j \in 1..Len(centroids[c]) |->
                Div(SumSeq([m \in 1..Len(members) |-> data[members[m]][j]],
                           Len(members)), Z(Len(members)))]]

\* kMeans lines 156-164: the centroid update; a centroid without member is kept
UpdateCentroids(data, lab, centroids, k, d) ==
    [c \in 1..Len(centroids) |->
        LET members == SelectIndices(lab, c - 1, Len(lab))
        IN  IF c <= k /\ Len(members) > 0
            THEN [j \in 1..Len(centroids[c]) |->
                    IF j <= d
                    THEN Div(SumSeq([m \in 1..Len(members) |-> data[members[m]][j]],
                                    Len(members)), Z(Len(members)))
                    ELSE centroids[c][j]]
            ELSE centroids[c]]

\* silhouetteScore lines 185-189: a(i)
SilhouetteA(data, lab, i) ==
    LET same == {j \in 1..Len(data) : lab[j] = lab[i] /\ j # i}
        sameSeq == SelectIndices([j \in 1..Len(data) |-> j \in same], TRUE, Len(data))
    IN  IF Len(sameSeq) > 0
        THEN Div(SumSeq([m \in 1..Len(sameSeq) |-> EuclideanDistance(data[i], data[sameSeq[m]])],
                        Len(sameSeq)), Z(Len(sameSeq)))
        ELSE Z(0)

RECURSIVE SilhouetteB(_, _, _, _, _)
\* silhouetteScore lines 192-200: b(i), over the clusters below c
SilhouetteB(data, lab, i, k, c) ==
    IF c = 0 THEN PosInf
    ELSE LET b == SilhouetteB(data, lab, i, k, c - 1)
             other == SelectIndices(lab, c - 1, Len(lab))
         IN  IF c - 1 = lab[i] \/ Len(other) = 0 THEN b
             ELSE MathMin(b, Div(SumSeq([m \in 1..Len(other) |->
                                            EuclideanDistance(data[i], data[other[m]])],
                                        Len(other)), Z(Len(other))))

\* silhouetteScore
SilhouetteScore(data, lab) ==
    LET n == Len(data)
        k == Add(MaxIntSeq(lab, Len(lab)), Z(1))
    IN  IF k = Z(1) \/ n = 0 THEN Z(0)
        ELSE LET s == [i \in 1..n |->
                         LET a == SilhouetteA(data, lab, i)
                             b == SilhouetteB(data, lab, i, k.n, k.n)
                         IN  Div(Sub(b, a), MathMax(a, b))]
             IN  Div(SumSeq(s, n), Z(n))

\* clusterActivities lines 254-272: what one feature key pushes
FeatureValues(activity, feature) ==
    IF feature = "distance_miles"
    THEN << Div(activity.distance, Q(160934, 100)) >>
    ELSE IF feature = "average_speed_mph"
    THEN << IF Truthy(activity.average_speed)
            THEN Mul(activity.average_speed, Q(223694, 100000))
            ELSE Mul(Div(activity.distance, activity.moving_time), Q(223694, 100000)) >>
    ELSE IF feature = "total_elevation_gain"
    THEN << Mul(activity.total_elevation_gain, Q(328084, 100000)) >>
    ELSE IF feature = "moving_time_hours"
    THEN << Div(activity.moving_time, Z(3600)) >>
    ELSE IF feature = "max_speed_mph"
    THEN << IF Truthy(activity.max_speed)
            THEN Mul(activity.max_speed, Q(223694, 100000))
            ELSE Z(0) >>
    ELSE <<>>

RECURSIVE FeatureVector(_, _, _)
\* clusterActivities lines 252-274: the features of one activity, for the
\* first m feature keys
FeatureVector(activity, featureNames, m) ==
    IF m = 0 THEN <<>>
    ELSE FeatureVector(activity, featureNames, m - 1) \o FeatureValues(activity, featureNames[m])

\* getClusterColor
ClusterPalette ==
    << "#FF3B3B", "#00D9FF", "#FFD93B", "#9D4EDD",
       "#06FFA5", "#FF6B35", "#4361EE", "#FF1E8C" >>

GetClusterColor(clusterIndex) ==
    ColorAt(ClusterPalette, JsRem(clusterIndex, Len(ClusterPalette)))

\* ------------------------------------------------------------------------
\* State
\* ------------------------------------------------------------------------

VARIABLES
    pc,                  \* where the running call stands
    routes,              \* findSimilarRoutes: routes
    similarityThreshold, \* findSimilarRoutes: similarityThreshold
    minMatches,          \* findSimilarRoutes: minMatches
    signatures,          \* findSimilarRoutes: signatures
    distanceMatrix,      \* findSimilarRoutes / dbscan: distanceMatrix
    eps,                 \* dbscan: eps
    minSamples,          \* dbscan: minSamples
    labels,              \* dbscan: labels
    clusterId,           \* dbscan: clusterId
    scanI,               \* dbscan: i of the scan loop
    seeds,               \* history: the point each cluster was started from
    noiseSeen,           \* history: the points the scan left as noise
    result,              \* findSimilarRoutes: the RouteMatchResult
    args,                \* a function called on its own: its arguments
    ret,                 \* a function called on its own: what it returned
    ca,                  \* clusterActivities: its arguments and locals
    fk,                  \* findOptimalK: its arguments and locals
    km,                  \* kMeans: its arguments and locals
    stack,               \* the callers waiting for the running function
    outcome,             \* the outermost call: which, and how it ended
    concurrency,         \* fetchStreamsBatch: concurrency
    queue,               \* fetchStreamsBatch: queue
    active,              \* fetchStreamsBatch: active
    flights,             \* fetchStreamsBatch: the started fetches not yet finished
    streams,             \* fetchStreamsBatch: the keys of result
    progress,            \* history: the calls of onProgress, in order
    served               \* history: the responses of the Strava API, in order

vars == << pc, routes, similarityThreshold, minMatches, signatures, distanceMatrix,
           eps, minSamples, labels, clusterId, scanI, seeds, noiseSeen, result,
           args, ret, ca, fk, km, stack, outcome, concurrency, queue, active,
           flights, streams, progress, served >>

batchVars == << concurrency, queue, active, flights, streams, progress, served >>
clusterVars == << ca, fk, km, stack, outcome >>
dbscanVars == << distanceMatrix, eps, minSamples, labels, clusterId, scanI, seeds, noiseSeen >>
inputVars == << routes, similarityThreshold, minMatches >>
callVars == << args, ret >>

NoResult == [labels |-> <<>>, patterns |-> -1, uniqueRoutes |-> -1, patternColors |-> <<>>]

\* ------------------------------------------------------------------------
\* findSimilarRoutes, step by step
\* ------------------------------------------------------------------------

\* lines 302-309: no route, the empty result
ReturnEmpty ==
    /\ pc = "findSimilarRoutes"
    /\ Len(routes) = 0
    /\ result' = [labels |-> <<>>, patterns |-> 0, uniqueRoutes |-> 0, patternColors |-> <<>>]
    /\ pc' = "done"
    /\ UNCHANGED << inputVars, batchVars, signatures, dbscanVars, callVars, clusterVars >>

\* line 312: one signature per route
CreateSignatures ==
    /\ pc = "findSimilarRoutes"
    /\ Len(routes) > 0
    /\ signatures' = [r \in 1..Len(routes) |-> CreateRouteSignature(routes[r])]
    /\ pc' = "matrix"
    /\ UNCHANGED << inputVars, batchVars, dbscanVars, result, callVars, clusterVars >>

\* lines 315-324: compareSignatures for i < j, written to both [i][j] and [j][i];
\* line 327: the call of dbscan
BuildMatrix ==
    /\ pc = "matrix"
    /\ LET n == Len(routes)
       IN  distanceMatrix' =
               [i \in 1..n |-> [j \in 1..n |->
                   IF i = j THEN Z(0)
                   ELSE IF i < j THEN CompareSignatures(signatures[i], signatures[j])
                   ELSE CompareSignatures(signatures[j], signatures[i])]]
    /\ eps' = similarityThreshold
    /\ minSamples' = minMatches
    /\ labels' = [i \in 1..Len(routes) |-> -1]
    /\ clusterId' = 0
    /\ scanI' = 0
    /\ seeds' = <<>>
    /\ noiseSeen' = {}
    /\ pc' = "dbscan"
    /\ UNCHANGED << inputVars, batchVars, signatures, result, callVars, clusterVars >>

\* a variant of the scan loop body that forgets clusterId++
ScanStepSameId(dm, e, ms, lab, cid, i) ==
    IF lab[i + 1] # -1
    THEN [labels |-> lab, clusterId |-> cid, did |-> "continue"]
    ELSE LET neighbors == RangeQuery(dm, e, i)
         IN  IF Len(neighbors) < ms
             THEN [labels |-> [lab EXCEPT ![i + 1] = -1], clusterId |-> cid, did |-> "noise"]
             ELSE [labels |-> ExpandCluster(dm, e, ms, lab, i, neighbors, cid),
                   clusterId |-> cid, did |-> "cluster"]

\* lines 255-264: the body of the scan loop of dbscan at index i: the labels
\* and the clusterId after it, and whether it started a cluster or left i as
\* noise
ScanStep(dm, e, ms, lab, cid, i) ==
    IF lab[i + 1] # -1
    THEN [labels |-> lab, clusterId |-> cid, did |-> "continue"]
    ELSE LET neighbors == RangeQuery(dm, e, i)
         IN  IF Len(neighbors) < ms
             THEN [labels |-> [lab EXCEPT ![i + 1] = -1], clusterId |-> cid, did |-> "noise"]
             ELSE [labels |-> ExpandCluster(dm, e, ms, lab, i, neighbors, cid),
                   clusterId |-> cid + 1, did |-> "cluster"]

\* lines 254-265: one round of the scan loop of dbscan
DbscanScan ==
    /\ pc = "dbscan"
    /\ scanI < Len(distanceMatrix)
    /\ LET step == ScanStep(distanceMatrix, eps, minSamples, labels, clusterId, scanI)
       IN  /\ labels' = step.labels
           /\ clusterId' = step.clusterId
           /\ seeds' = IF step.did = "cluster" THEN Append(seeds, scanI) ELSE seeds
           /\ noiseSeen' = IF step.did = "noise" THEN noiseSeen \cup {scanI} ELSE noiseSeen
    /\ scanI' = scanI + 1
    /\ UNCHANGED << pc, inputVars, batchVars, signatures, distanceMatrix, eps, minSamples, result, callVars, clusterVars >>

\* line 267: dbscan returns its labels
DbscanReturn ==
    /\ pc = "dbscan"
    /\ scanI = Len(distanceMatrix)
    /\ pc' = "count"
    /\ UNCHANGED << inputVars, batchVars, signatures, dbscanVars, result, callVars, clusterVars >>

\* one pattern counted for every route that has a pattern
PatternCountPerRoute(lab) == Cardinality({i \in 1..Len(lab) : lab[i] >= 0})

\* lines 330-331: the number of distinct labels >= 0
PatternCount(lab) == Cardinality({l \in Range(lab) : l >= 0})

\* lines 330-345: patterns, unique routes and colours
CountPatterns ==
    /\ pc = "count"
    /\ LET patterns == PatternCount(labels)
       IN  result' = [labels |-> labels,
                      patterns |-> patterns,
                      uniqueRoutes |-> Cardinality({i \in 1..Len(labels) : labels[i] = -1}),
                      patternColors |-> [i \in 1..patterns |-> GetPatternColor(i - 1)]]
    /\ pc' = "done"
    /\ UNCHANGED << inputVars, batchVars, signatures, dbscanVars, callVars, clusterVars >>


\* ------------------------------------------------------------------------
\* Functions called on their own
\* ------------------------------------------------------------------------

\* createRouteSignature(points)
CallCreateRouteSignature ==
    /\ pc = "createRouteSignature"
    /\ ret' = CreateRouteSignature(args[1])
    /\ pc' = "createRouteSignature.done"
    /\ UNCHANGED << args, inputVars, batchVars, signatures, dbscanVars, result, clusterVars >>

\* compareBearingSequences(bearings1, bearings2)
CallCompareBearingSequences ==
    /\ pc = "compareBearingSequences"
    /\ ret' = CompareBearingSequences(args[1], args[2])
    /\ pc' = "compareBearingSequences.done"
    /\ UNCHANGED << args, inputVars, batchVars, signatures, dbscanVars, result, clusterVars >>

\* ------------------------------------------------------------------------
\* StravaService.fetchStreamsBatch and fetchActivityStreams
\* ------------------------------------------------------------------------

\* what the Strava API answers to a streams request: time and altitude of one
\* length, a body without them, HTTP 429, or another failure
Responses == {"ok", "malformed", "429", "error"}

\* fetchActivityStreams lines 147-165: the stream of a well-formed answer,
\* null for a malformed one (line 157), and null for every rejected request,
\* HTTP 429 included, which the catch of line 161 absorbs: nothing is thrown
FetchActivityStreams(activityId, response) ==
    [threw |-> FALSE,
     err |-> "none",
     value |-> IF response = "ok" THEN "stream" ELSE "null"]

\* next, lines 179-200, run with queue q and active a over the flights fl: the
\* promise is resolved when nothing is queued or active (line 180), otherwise
\* fetches are started while active < concurrency and the queue has entries
RunNext(q, a, fl, conc) ==
    IF Len(q) = 0 /\ a = 0
    THEN [resolved |-> TRUE, queue |-> q, active |-> a, flights |-> fl]
    ELSE LET room == IF conc > a THEN conc - a ELSE 0
             m == MinInt(room, Len(q))
         IN  [resolved |-> FALSE,
              queue |-> SubSeq(q, m + 1, Len(q)),
              active |-> a + m,
              flights |-> fl \o [i \in 1..m |-> [id |-> q[i], at |-> "request"]]]

\* the sequence s without its entry f
Without(s, f) == SubSeq(s, 1, f - 1) \o SubSeq(s, f + 1, Len(s))

\* the finally of lines 196-199 for the flight f: active--, then next()
Finally(q, f) ==
    LET n == RunNext(q, active - 1, Without(flights, f), concurrency)
    IN  /\ queue' = n.queue
        /\ active' = n.active
        /\ flights' = n.flights
        /\ pc' = IF n.resolved THEN "fetchStreamsBatch.resolved" ELSE pc

\* fetchStreamsBatch lines 174-203: result, queue and active are set up and
\* the executor of the promise runs next() once
CallFetchStreamsBatch ==
    /\ pc = "fetchStreamsBatch"
    /\ LET n == RunNext(args[1], 0, <<>>, concurrency)
       IN  /\ queue' = n.queue
           /\ active' = n.active
           /\ flights' = n.flights
           /\ pc' = IF n.resolved THEN "fetchStreamsBatch.resolved"
                    ELSE "fetchStreamsBatch.pending"
    /\ streams' = {}
    /\ UNCHANGED << inputVars, signatures, dbscanVars, result, callVars, clusterVars,
                    concurrency, progress, served >>

\* lines 185-199: the request of one flight is answered and the rest of its
\* function runs: the stream is stored and reported; an error thrown by
\* fetchActivityStreams would be requeued after a wait when it is HTTP 429 and
\* reported as null otherwise
StreamSettled ==
    /\ pc = "fetchStreamsBatch.pending"
    /\ \E f \in 1..Len(flights) : \E response \in Responses :
          LET id == flights[f].id
              r == FetchActivityStreams(id, response)
          IN  /\ flights[f].at = "request"
              /\ served' = Append(served, << id, response >>)
              /\ IF ~r.threw
                 THEN /\ streams' = IF r.value # "null" THEN streams \cup {id} ELSE streams
                      /\ progress' = Append(progress, << id, r.value >>)
                      /\ Finally(queue, f)
                 ELSE IF r.err = "429"
                 THEN /\ flights' = [flights EXCEPT ![f].at = "wait"]
                      /\ UNCHANGED << pc, queue, active, streams, progress >>
                 ELSE /\ progress' = Append(progress, << id, "null" >>)
                      /\ Finally(queue, f)
                      /\ UNCHANGED streams
    /\ UNCHANGED << inputVars, signatures, dbscanVars, result, callVars, clusterVars,
                    concurrency >>

\* lines 191-192 and 196-199: the wait of 1500 ms is over, the id goes back to
\* the end of the queue, and the flight ends. No flight ever waits, since
\* fetchActivityStreams throws nothing, so no specification takes this step
RetryAfterWait ==
    /\ pc = "fetchStreamsBatch.pending"
    /\ \E f \in 1..Len(flights) :
          /\ flights[f].at = "wait"
          /\ Finally(Append(queue, flights[f].id), f)
    /\ UNCHANGED << inputVars, signatures, dbscanVars, result, callVars, clusterVars,
                    concurrency, streams, progress, served >>

\* ------------------------------------------------------------------------
\* clusterActivities, findOptimalK and kMeans, step by step
\* ------------------------------------------------------------------------

\* findOptimalK / clusterActivities: kRange = [2, 3, 4, 5, 6]
DefaultKRange == << 2, 3, 4, 5, 6 >>

NoClusterResult ==
    [labels |-> <<>>, centroids |-> <<>>, silhouetteScore |-> NaN, k |-> -1,
     silhouetteScores |-> <<>>]

NoCa == [activities |-> <<>>, featureNames |-> <<>>, kRange |-> <<>>,
         data |-> <<>>, scaled |-> <<>>]

NoFk == [data |-> <<>>, kRange |-> <<>>, pos |-> 0, bestK |-> -1, bestScore |-> NaN,
         bestLabels |-> <<>>, bestCentroids |-> <<>>, allScores |-> <<>>,
         result |-> NoClusterResult]

NoKm == [data |-> <<>>, k |-> 0, maxIterations |-> 0, seed |-> Z(0), rng |-> Z(0),
         centroids |-> <<>>, labels |-> <<>>, iter |-> 0]

\* the frame of a call clusterActivities(activities, featureNames, kRange)
CallCa(activities, featureNames, kRange) ==
    [NoCa EXCEPT !.activities = activities, !.featureNames = featureNames,
                 !.kRange = kRange]

\* the frame of a call findOptimalK(data, kRange), lines 213-217; kRange[0]
\* of an empty kRange is undefined, written -1
CallFk(data, kRange) ==
    [NoFk EXCEPT !.data = data, !.kRange = kRange, !.pos = 1,
                 !.bestK = IF Len(kRange) > 0 THEN kRange[1] ELSE -1,
                 !.bestScore = Z(-1)]

\* the frame of a call kMeans(data, k, maxIterations, seed)
CallKm(data, k, maxIterations, seed) ==
    [NoKm EXCEPT !.data = data, !.k = k, !.maxIterations = maxIterations,
                 !.seed = seed]

\* a TypeError nothing in clustering.ts catches: every waiting caller is left
Throw ==
    /\ outcome' = [outcome EXCEPT !.kind = "throw", !.value = "TypeError"]
    /\ stack' = <<>>
    /\ pc' = "done"

\* clusterActivities lines 251-275: the feature rows
ExtractFeatures ==
    /\ pc = "clusterActivities"
    /\ ca' = [ca EXCEPT !.data = [i \in 1..Len(ca.activities) |->
                 FeatureVector(ca.activities[i], ca.featureNames, Len(ca.featureNames))]]
    /\ pc' = "standardize"
    /\ UNCHANGED << inputVars, batchVars, signatures, dbscanVars, result, callVars, fk, km, stack, outcome >>

\* clusterActivities lines 278-281: standardize, then the call of findOptimalK
CallStandardize ==
    /\ pc = "standardize"
    /\ LET r == Standardize(ca.data)
       IN  IF r.threw
           THEN /\ Throw
                /\ UNCHANGED << ca, fk >>
           ELSE /\ ca' = [ca EXCEPT !.scaled = r.scaled]
                /\ fk' = CallFk(r.scaled, ca.kRange)
                /\ stack' = Append(stack, "clusterActivities")
                /\ pc' = "findOptimalK"
                /\ UNCHANGED outcome
    /\ UNCHANGED << inputVars, batchVars, signatures, dbscanVars, result, callVars, km >>

\* findOptimalK lines 219-220: the next k of kRange, and the call of kMeans
\* with its default maxIterations and seed
FindOptimalKNext ==
    /\ pc = "findOptimalK"
    /\ IF fk.pos <= Len(fk.kRange)
       THEN /\ km' = CallKm(fk.data, fk.kRange[fk.pos], DefaultMaxIterations, Z(DefaultSeed))
            /\ stack' = Append(stack, "findOptimalK")
            /\ pc' = "kMeans"
       ELSE /\ pc' = "findOptimalK.return"
            /\ UNCHANGED << km, stack >>
    /\ UNCHANGED << inputVars, batchVars, signatures, dbscanVars, result, callVars, ca, fk, outcome >>

\* a generator left by an earlier call, used again
SharedSeededRandom(frame) == frame.rng

\* kMeans line 91: new SeededRandom(seed), the state the generator starts in
NewSeededRandom(frame) == frame.seed

\* kMeans lines 89-128: data[0].length, the k-means++ centroids, labels of 0
KMeansInit ==
    /\ pc = "kMeans"
    /\ IF Len(km.data) = 0 \/ FirstIdxMisses(km.data, NewSeededRandom(km))
       THEN /\ Throw
            /\ UNCHANGED km
       ELSE /\ LET c == InitCentroids(km.data, km.k, NewSeededRandom(km))
               IN  km' = [km EXCEPT !.centroids = c.centroids, !.rng = c.seed,
                                    !.labels = [i \in 1..Len(km.data) |-> 0],
                                    !.iter = 0]
            /\ pc' = IF 0 < km.maxIterations THEN "kMeans.assign" ELSE "kMeans.return"
            /\ UNCHANGED << stack, outcome >>
    /\ UNCHANGED << inputVars, batchVars, signatures, dbscanVars, result, callVars, ca, fk >>

\* kMeans lines 132-153: one assignment pass; the loop is left when no label
\* changed
KMeansAssign ==
    /\ pc = "kMeans.assign"
    /\ LET r == AssignPass(km.data, km.centroids, km.k, km.labels)
       IN  /\ km' = [km EXCEPT !.labels = r.labels]
           /\ pc' = IF r.changed THEN "kMeans.update" ELSE "kMeans.return"
    /\ UNCHANGED << inputVars, batchVars, signatures, dbscanVars, result, callVars, ca, fk, stack, outcome >>

\* kMeans lines 155-164 and the loop's iter++
KMeansUpdate ==
    /\ pc = "kMeans.update"
    /\ km' = [km EXCEPT !.centroids = UpdateCentroids(km.data, km.labels, km.centroids,
                                                      km.k, Len(km.data[1])),
                        !.iter = km.iter + 1]
    /\ pc' = IF km.iter + 1 < km.maxIterations THEN "kMeans.assign" ELSE "kMeans.return"
    /\ UNCHANGED << inputVars, batchVars, signatures, dbscanVars, result, callVars, ca, fk, stack, outcome >>

\* kMeans line 167: { labels, centroids } goes to findOptimalK or to the caller
KMeansReturn ==
    /\ pc = "kMeans.return"
    /\ IF Len(stack) > 0
       THEN /\ stack' = SubSeq(stack, 1, Len(stack) - 1)
            /\ pc' = "findOptimalK.score"
            /\ UNCHANGED outcome
       ELSE /\ outcome' = [outcome EXCEPT !.kind = "return",
                              !.value = [labels |-> km.labels, centroids |-> km.centroids]]
            /\ pc' = "done"
            /\ UNCHANGED stack
    /\ UNCHANGED << inputVars, batchVars, signatures, dbscanVars, result, callVars, ca, fk, km >>

\* kMeans called once more by the same caller with the same arguments: what
\* the first call returned is kept in ret, and its frame is left as it ended
KMeansAgain ==
    /\ pc = "done"
    /\ outcome.of = "kMeans"
    /\ ret = <<>>
    /\ ret' = << outcome >>
    /\ outcome' = [outcome EXCEPT !.kind = "pending", !.value = <<>>]
    /\ pc' = "kMeans"
    /\ UNCHANGED << args, inputVars, batchVars, signatures, dbscanVars, result, ca, fk, km, stack >>

\* a score that replaces the best one also when it only equals it
ImprovesOrTies(score, bestScore) == Ge(score, bestScore)

\* findOptimalK line 225: score > bestScore
Improves(score, bestScore) == Gt(score, bestScore)

\* findOptimalK lines 221-230: the score of this k, kept when it is the best
FindOptimalKScore ==
    /\ pc = "findOptimalK.score"
    /\ LET k == fk.kRange[fk.pos]
           score == SilhouetteScore(fk.data, km.labels)
           scored == [fk EXCEPT !.allScores = Append(@, [k |-> k, score |-> score]),
                                !.pos = @ + 1]
       IN  fk' = IF Improves(score, fk.bestScore)
                 THEN [scored EXCEPT !.bestScore = score, !.bestK = k,
                                     !.bestLabels = km.labels,
                                     !.bestCentroids = km.centroids]
                 ELSE scored
    /\ pc' = "findOptimalK"
    /\ UNCHANGED << inputVars, batchVars, signatures, dbscanVars, result, callVars, ca, km, stack, outcome >>

\* findOptimalK lines 233-239: the ClusterResult goes to clusterActivities or
\* to the caller
FindOptimalKReturn ==
    /\ pc = "findOptimalK.return"
    /\ LET r == [labels |-> fk.bestLabels, centroids |-> fk.bestCentroids,
                 silhouetteScore |-> fk.bestScore, k |-> fk.bestK,
                 silhouetteScores |-> fk.allScores]
       IN  IF Len(stack) > 0
           THEN /\ fk' = [fk EXCEPT !.result = r]
                /\ stack' = SubSeq(stack, 1, Len(stack) - 1)
                /\ pc' = "clusterActivities.return"
                /\ UNCHANGED outcome
           ELSE /\ outcome' = [outcome EXCEPT !.kind = "return", !.value = r]
                /\ pc' = "done"
                /\ UNCHANGED << fk, stack >>
    /\ UNCHANGED << inputVars, batchVars, signatures, dbscanVars, result, callVars, ca, km >>

\* clusterActivities lines 284-288: the result with rawData and scaledData
ClusterActivitiesReturn ==
    /\ pc = "clusterActivities.return"
    /\ outcome' = [outcome EXCEPT !.kind = "return",
                      !.value = [labels |-> fk.result.labels,
                                 centroids |-> fk.result.centroids,
                                 silhouetteScore |-> fk.result.silhouetteScore,
                                 k |-> fk.result.k,
                                 silhouetteScores |-> fk.result.silhouetteScores,
                                 rawData |-> ca.data,
                                 scaledData |-> ca.scaled]]
    /\ pc' = "done"
    /\ UNCHANGED << inputVars, batchVars, signatures, dbscanVars, result, callVars, ca, fk, km, stack >>

\* getClusterColor(clusterIndex)
CallGetClusterColor ==
    /\ pc = "getClusterColor"
    /\ ret' = GetClusterColor(args[1])
    /\ pc' = "getClusterColor.done"
    /\ UNCHANGED << args, inputVars, batchVars, signatures, dbscanVars, result, clusterVars >>

\* getRouteMatchColor(patternLabel)
CallGetRouteMatchColor ==
    /\ pc = "getRouteMatchColor"
    /\ ret' = GetRouteMatchColor(args[1])
    /\ pc' = "getRouteMatchColor.done"
    /\ UNCHANGED << args, inputVars, batchVars, signatures, dbscanVars, result, clusterVars >>

\* silhouetteScore(data, labels)
CallSilhouetteScore ==
    /\ pc = "silhouetteScore"
    /\ ret' = SilhouetteScore(args[1], args[2])
    /\ pc' = "silhouetteScore.done"
    /\ UNCHANGED << args, inputVars, batchVars, signatures, dbscanVars, result, clusterVars >>

\* ------------------------------------------------------------------------
\* Initial states and specifications
\* ------------------------------------------------------------------------

NoCall == args = <<>> /\ ret = <<>>

NoBatch ==
    /\ concurrency = 0
    /\ queue = <<>>
    /\ active = 0
    /\ flights = <<>>
    /\ streams = {}
    /\ progress = <<>>
    /\ served = <<>>

NoCluster ==
    /\ ca = NoCa
    /\ fk = NoFk
    /\ km = NoKm
    /\ stack = <<>>
    /\ outcome = [of |-> "none", kind |-> "none", value |-> <<>>]

NoDbscan ==
    /\ distanceMatrix = <<>>
    /\ eps = Z(0)
    /\ minSamples = 0
    /\ labels = <<>>
    /\ clusterId = 0
    /\ scanI = 0
    /\ seeds = <<>>
    /\ noiseSeen = {}

NoRoutes ==
    /\ routes = <<>>
    /\ similarityThreshold = Z(0)
    /\ minMatches = 0
    /\ signatures = <<>>
    /\ result = NoResult

\* every route of at most MaxPoints points with lat in 0..MaxLat
AllRoutes == UNION {[1..m -> {Point(l) : l \in 0..MaxLat}] : m \in 0..MaxPoints}

\* the thresholds tried: exact matches only, and the default 0.25
Thresholds == {Z(0), Q(1, 4)}

\* findSimilarRoutes on every pair of routes of AllRoutes, minMatches = 2 as
\* the application passes it
InitPair ==
    /\ pc = "findSimilarRoutes"
    /\ routes \in {<<a, b>> : a \in AllRoutes, b \in AllRoutes}
    /\ similarityThreshold \in Thresholds
    /\ minMatches = 2
    /\ signatures = <<>>
    /\ result = NoResult
    /\ NoDbscan
    /\ NoCluster
    /\ NoCall
    /\ NoBatch

NextPair == CreateSignatures \/ BuildMatrix \/ DbscanScan \/ DbscanReturn \/ CountPatterns

SpecPair == InitPair /\ [][NextPair]_vars

\* a catalogue of routes: no point, no movement, north, south,
\* out and back, twice as far north
ToRoute(lats) == [j \in 1..Len(lats) |-> Point(lats[j])]

RouteCatalogue ==
    {ToRoute(l) : l \in {<<>>, <<0, 0>>, <<0, 1>>, <<1, 0>>, <<0, 1, 0>>, <<0, 2>>}}

\* findSimilarRoutes on up to MaxRoutes routes of the catalogue
Init ==
    /\ pc = "findSimilarRoutes"
    /\ routes \in UNION {[1..m -> RouteCatalogue] : m \in 0..MaxRoutes}
    /\ similarityThreshold \in Thresholds
    /\ minMatches \in {1, 2, 3}
    /\ signatures = <<>>
    /\ result = NoResult
    /\ NoDbscan
    /\ NoCluster
    /\ NoCall
    /\ NoBatch

Next ==
    \/ ReturnEmpty
    \/ CreateSignatures
    \/ BuildMatrix
    \/ DbscanScan
    \/ DbscanReturn
    \/ CountPatterns

Spec == Init /\ [][Next]_vars

\* dbscan on every symmetric matrix with zero diagonal of at most MaxMatrix
\* points whose other entries are one of two values: a near one (0 or 0.25)
\* and a far one (1 or NaN)
NearValues == {Z(0), Q(1, 4)}
FarValues == {Z(1), NaN}

UpperPairs(n) == {p \in (1..n) \X (1..n) : p[1] < p[2]}

SymmetricMatrix(n, u) ==
    [i \in 1..n |-> [j \in 1..n |->
        IF i = j THEN Z(0) ELSE IF i < j THEN u[<<i, j>>] ELSE u[<<j, i>>]]]

InitDbscan ==
    /\ pc = "dbscan"
    /\ \E n \in 0..MaxMatrix : \E near \in NearValues : \E far \in FarValues :
       \E u \in [UpperPairs(n) -> {near, far}] :
          /\ distanceMatrix = SymmetricMatrix(n, u)
          /\ labels = [i \in 1..n |-> -1]
    /\ eps \in Thresholds
    /\ minSamples \in 1..MaxMinSamples
    /\ clusterId = 0
    /\ scanI = 0
    /\ seeds = <<>>
    /\ noiseSeen = {}
    /\ NoRoutes
    /\ NoCall
    /\ NoCluster
    /\ NoBatch

NextDbscan == DbscanScan \/ DbscanReturn

SpecDbscan == InitDbscan /\ [][NextDbscan]_vars

\* createRouteSignature on coordinate sequences of every length up to
\* MaxTrack, the track running north, or north and back south
TrackPoint(shape, n, j) ==
    IF shape = "north" THEN Point(j)
    ELSE Point(IF 2 * j <= n THEN j ELSE n - j)

InitSignature ==
    /\ pc = "createRouteSignature"
    /\ \E n \in 0..MaxTrack : \E shape \in {"north", "return"} :
          args = << [j \in 1..n |-> TrackPoint(shape, n, j)] >>
    /\ ret = <<>>
    /\ NoRoutes
    /\ NoDbscan
    /\ NoCluster
    /\ NoBatch

NextSignature == CallCreateRouteSignature

SpecSignature == InitSignature /\ [][NextSignature]_vars

\* compareBearingSequences on every pair of bearing sequences of 1 to
\* MaxBearings bearings out of four compass values
BearingValues == {Z(0), Z(90), Z(180), Z(350)}

BearingSeqs == UNION {[1..m -> BearingValues] : m \in 1..MaxBearings}

InitBearings ==
    /\ pc = "compareBearingSequences"
    /\ args \in {<<a, b>> : a \in BearingSeqs, b \in BearingSeqs}
    /\ ret = <<>>
    /\ NoRoutes
    /\ NoDbscan
    /\ NoCluster
    /\ NoBatch

NextBearings == CallCompareBearingSequences

SpecBearings == InitBearings /\ [][NextBearings]_vars


\* the scenario of five similar routes among unrelated ones, in every
\* arrangement: ScenarioSimilar routes taken in turn from three routes that
\* lie within 0.25 of each other, and three routes farther than 0.25 from
\* every other route, threshold 0.25, minMatches 2
SimilarRoutes == << ToRoute(<<0, 1, 2>>), ToRoute(<<0, 1, 3>>), ToRoute(<<0, 2, 3>>) >>
UnrelatedRoutes == << ToRoute(<<2, 1, 0>>), ToRoute(<<0, 0, 0>>), ToRoute(<<3, 3, 0>>) >>

ScenarioRoutes == ScenarioSimilar + Len(UnrelatedRoutes)

\* how many of the places before place i hold a route of the set g of places
Before(g, i) == Cardinality({j \in g : j < i})

InitScenario ==
    /\ pc = "findSimilarRoutes"
    /\ \E g \in SUBSET (1..ScenarioRoutes) : \E first \in 0..2 :
       \E order \in {o \in [1..3 -> 1..3] : \A a, b \in 1..3 : a # b => o[a] # o[b]} :
          /\ Cardinality(g) = ScenarioSimilar
          /\ routes = [i \in 1..ScenarioRoutes |->
                IF i \in g
                THEN SimilarRoutes[((Before(g, i) + first) % 3) + 1]
                ELSE UnrelatedRoutes[order[Before((1..ScenarioRoutes) \ g, i) + 1]]]
    /\ similarityThreshold = Q(1, 4)
    /\ minMatches = 2
    /\ signatures = <<>>
    /\ result = NoResult
    /\ NoDbscan
    /\ NoCluster
    /\ NoCall
    /\ NoBatch

NextScenario == CreateSignatures \/ BuildMatrix \/ DbscanScan \/ DbscanReturn \/ CountPatterns

SpecScenario == InitScenario /\ [][NextScenario]_vars

\* the activities tried: dm miles (1609.34 m each) in one or two hours, no
\* climb, a recorded average speed of dm mph (1 / 2.23694 m/s each); an
\* absent average_speed or max_speed is written 0, which the code cannot
\* tell from it (both are falsy, and it reads them nowhere else)
Activity(dm) ==
    [distance |-> Q(dm * 160934, 100),
     moving_time |-> Z(3600 * (1 + (dm % 2))),
     total_elevation_gain |-> Z(0),
     average_speed |-> Q(dm * 100000, 223694),
     max_speed |-> Z(0)]

\* an activity of dm miles that recorded no moving time and no speed
Stalled(dm) ==
    [distance |-> Q(dm * 160934, 100),
     moving_time |-> Z(0),
     total_elevation_gain |-> Z(0),
     average_speed |-> Z(0),
     max_speed |-> Z(0)]

ActivityLists == UNION {[1..m -> {Activity(dm) : dm \in 0..MaxMiles}] : m \in 0..MaxActivities}

\* the feature keys tried: keys of the switch, and the metric keys one
\* version of the application starts with
FeatureChoices ==
    { << "distance_miles" >>,
      << "distance_miles", "moving_time_hours" >>,
      << "distance_km", "average_speed_kph" >> }

KRanges == { DefaultKRange, << 2 >>, << 3, 2 >>, <<>> }

\* the datasets tried: up to MaxActivities rows of one whole number
DataSets == UNION {[1..m -> {<< Z(x) >> : x \in 0..MaxMiles}] : m \in 0..MaxActivities}

InitClusterActivities ==
    /\ pc = "clusterActivities"
    /\ \E a \in ActivityLists : \E f \in FeatureChoices : \E r \in KRanges :
          ca = CallCa(a, f, r)
    /\ fk = NoFk
    /\ km = NoKm
    /\ outcome = [of |-> "clusterActivities", kind |-> "pending", value |-> <<>>]

InitFindOptimalK ==
    /\ pc = "findOptimalK"
    /\ \E d \in DataSets : \E r \in KRanges : fk = CallFk(d, r)
    /\ ca = NoCa
    /\ km = NoKm
    /\ outcome = [of |-> "findOptimalK", kind |-> "pending", value |-> <<>>]

InitKMeans ==
    /\ pc = "kMeans"
    /\ \E d \in DataSets : \E k \in 1..MaxK : \E it \in {1, DefaultMaxIterations} :
          km = CallKm(d, k, it, Z(DefaultSeed))
    /\ ca = NoCa
    /\ fk = NoFk
    /\ outcome = [of |-> "kMeans", kind |-> "pending", value |-> <<>>]

\* the colour lookups on every label up to MaxColorIndex (cluster labels from
\* 0, route labels from -1), beside findSimilarRoutes, which fills
\* patternColors
InitColors ==
    /\ \/ pc = "getClusterColor" /\ \E i \in 0..MaxColorIndex : args = << i >>
       \/ pc = "getRouteMatchColor" /\ \E l \in (-1)..MaxColorIndex : args = << l >>
    /\ ret = <<>>
    /\ NoRoutes
    /\ NoDbscan
    /\ NoCluster
    /\ NoBatch

NextColors == Next \/ CallGetClusterColor \/ CallGetRouteMatchColor

SpecColors == (Init \/ InitColors) /\ [][NextColors]_vars

\* findOptimalK with kRange = [2, 3] on two groups of three points in the
\* plane, [0,0] [0,1] [1,0] and [10,10] [10,11] [11,10], the six points moved
\* together by up to MaxShift along each axis
Blobs(sx, sy) ==
    << << Z(sx), Z(sy) >>, << Z(sx), Z(sy + 1) >>, << Z(sx + 1), Z(sy) >>,
       << Z(sx + 10), Z(sy + 10) >>, << Z(sx + 10), Z(sy + 11) >>,
       << Z(sx + 11), Z(sy + 10) >> >>

InitBlobs ==
    /\ pc = "findOptimalK"
    /\ \E sx \in 0..MaxShift : \E sy \in 0..MaxShift : fk = CallFk(Blobs(sx, sy), << 2, 3 >>)
    /\ ca = NoCa
    /\ km = NoKm
    /\ outcome = [of |-> "findOptimalK", kind |-> "pending", value |-> <<>>]
    /\ stack = <<>>
    /\ NoRoutes
    /\ NoDbscan
    /\ NoCall
    /\ NoBatch

NextBlobs ==
    \/ FindOptimalKNext
    \/ KMeansInit
    \/ KMeansAssign
    \/ KMeansUpdate
    \/ KMeansReturn
    \/ FindOptimalKScore
    \/ FindOptimalKReturn

SpecBlobs == InitBlobs /\ [][NextBlobs]_vars

\* silhouetteScore on every dataset of DataSets with every label array of the
\* same length over 0..MaxLabel
InitSilhouette ==
    /\ pc = "silhouetteScore"
    /\ \E d \in DataSets : \E l \in [1..Len(d) -> 0..MaxLabel] : args = << d, l >>
    /\ ret = <<>>
    /\ NoRoutes
    /\ NoDbscan
    /\ NoCluster
    /\ NoBatch

NextSilhouette == CallSilhouetteScore

SpecSilhouette == InitSilhouette /\ [][NextSilhouette]_vars

\* kMeans called twice in a row with the same data, k, maxIterations and seed
Seeds == {Z(DefaultSeed), Z(0)}

InitRepeat ==
    /\ pc = "kMeans"
    /\ \E d \in DataSets : \E k \in 1..MaxK : \E it \in {1, DefaultMaxIterations} :
       \E seed \in Seeds :
          km = CallKm(d, k, it, seed)
    /\ ca = NoCa
    /\ fk = NoFk
    /\ outcome = [of |-> "kMeans", kind |-> "pending", value |-> <<>>]
    /\ stack = <<>>
    /\ NoRoutes
    /\ NoDbscan
    /\ NoCall
    /\ NoBatch

NextRepeat == KMeansInit \/ KMeansAssign \/ KMeansUpdate \/ KMeansReturn \/ KMeansAgain

SpecRepeat == InitRepeat /\ [][NextRepeat]_vars

\* clusterActivities with its default kRange on one to MaxActivities
\* activities, moving or stalled, clustered by speed, or by distance and speed
SpeedFeatures == { << "average_speed_mph" >>, << "distance_miles", "average_speed_mph" >> }

InitSpeed ==
    /\ pc = "clusterActivities"
    /\ \E m \in 1..MaxActivities :
       \E a \in [1..m -> {Activity(dm) : dm \in 0..MaxMiles} \cup {Stalled(0), Stalled(1)}] :
       \E f \in SpeedFeatures :
          ca = CallCa(a, f, DefaultKRange)
    /\ fk = NoFk
    /\ km = NoKm
    /\ outcome = [of |-> "clusterActivities", kind |-> "pending", value |-> <<>>]
    /\ stack = <<>>
    /\ NoRoutes
    /\ NoDbscan
    /\ NoCall
    /\ NoBatch

NextSpeed ==
    \/ ExtractFeatures
    \/ CallStandardize
    \/ FindOptimalKNext
    \/ KMeansInit
    \/ KMeansAssign
    \/ KMeansUpdate
    \/ KMeansReturn
    \/ FindOptimalKScore
    \/ FindOptimalKReturn
    \/ ClusterActivitiesReturn

SpecSpeed == InitSpeed /\ [][NextSpeed]_vars

\* one call of kMeans, every step of which is taken sooner or later: the
\* function is synchronous and runs to its end without suspension
NextLoop == KMeansInit \/ KMeansAssign \/ KMeansUpdate \/ KMeansReturn

\* the positions of kMeans from its entry to its return statement
LoopPcs == {"kMeans", "kMeans.assign", "kMeans.update", "kMeans.return"}

\* a step of the call: every step of NextLoop moves to another position, and
\* one is possible at every position of LoopPcs, so fairness of Advance is
\* fairness of NextLoop, stated on the position alone
Advance == pc \in LoopPcs /\ pc' \in (LoopPcs \cup {"done"}) \ {pc}

SpecLoop == InitRepeat /\ [][NextLoop]_vars /\ WF_pc(Advance)

\* kMeans on 1 to MaxActivities distinct points 0, 1, ... with the seeds
\* 0..MaxSeed, seeds around the modulus, and the largest double
SeedChoices ==
    {Z(x) : x \in 0..MaxSeed}
        \cup {Z(RngModulus - 1), Z(RngModulus), Z(RngModulus + 1), MaxValue}

InitSeeded ==
    /\ pc = "kMeans"
    /\ \E m \in 1..MaxActivities : \E k \in 1..MaxK : \E seed \in SeedChoices :
          km = CallKm([i \in 1..m |-> << Z(i - 1) >>], k, 1, seed)
    /\ ca = NoCa
    /\ fk = NoFk
    /\ outcome = [of |-> "kMeans", kind |-> "pending", value |-> <<>>]
    /\ stack = <<>>
    /\ NoRoutes
    /\ NoDbscan
    /\ NoCall
    /\ NoBatch

SpecSeeded == InitSeeded /\ [][NextLoop]_vars

\* fetchStreamsBatch on the ids 1..m, m up to MaxIds, with a concurrency of 1
\* to MaxConcurrency, the API answering each request in any of its ways and
\* the requests in flight in any order
InitBatch ==
    /\ pc = "fetchStreamsBatch"
    /\ \E m \in 0..MaxIds : args = << [i \in 1..m |-> i] >>
    /\ ret = <<>>
    /\ concurrency \in 1..MaxConcurrency
    /\ queue = <<>>
    /\ active = 0
    /\ flights = <<>>
    /\ streams = {}
    /\ progress = <<>>
    /\ served = <<>>
    /\ NoRoutes
    /\ NoDbscan
    /\ NoCluster

NextBatch == CallFetchStreamsBatch \/ StreamSettled

SpecBatch == InitBatch /\ [][NextBatch]_vars

\* clusterActivities, findOptimalK or kMeans called from outside
InitCluster ==
    /\ (InitClusterActivities \/ InitFindOptimalK \/ InitKMeans)
    /\ stack = <<>>
    /\ NoRoutes
    /\ NoDbscan
    /\ NoCall
    /\ NoBatch

NextCluster ==
    \/ ExtractFeatures
    \/ CallStandardize
    \/ FindOptimalKNext
    \/ KMeansInit
    \/ KMeansAssign
    \/ KMeansUpdate
    \/ KMeansReturn
    \/ FindOptimalKScore
    \/ FindOptimalKReturn
    \/ ClusterActivitiesReturn

SpecCluster == InitCluster /\ [][NextCluster]_vars


\* ------------------------------------------------------------------------
\* Claims
\* ------------------------------------------------------------------------

Indices == 0..(Len(distanceMatrix) - 1)
Dm(i, j) == distanceMatrix[i + 1][j + 1]
AllNoise == \A i \in Indices : labels[i + 1] = -1
NoZeroPair == \A i, j \in Indices : i # j => Dm(i, j) # Z(0)
DbscanDone == pc \in {"count", "done"} /\ Len(distanceMatrix) > 0

\* C1 (as stated): for the matrix findSimilarRoutes builds, eps = 0 and
\* minSamples > 1, dbscan labels every point -1 whatever the routes are.
C1_AllNoiseAtEpsZero ==
    (DbscanDone /\ eps = Z(0) /\ minSamples > 1) => AllNoise

\* C1 (amended): for the matrix findSimilarRoutes builds, eps = 0 and
\* minSamples > 1, dbscan labels every point -1 provided no two distinct
\* routes have similarity 0.
C1_AllNoiseAtEpsZeroNoTies ==
    (DbscanDone /\ eps = Z(0) /\ minSamples > 1 /\ NoZeroPair) => AllNoise

C1_Witness ==
    /\ DbscanDone /\ eps = Z(0) /\ minSamples > 1 /\ NoZeroPair
    /\ Len(routes) >= 2
    /\ \E i, j \in Indices : i # j /\ IsNaN(Dm(i, j))
    /\ AllNoise

\* C2: in the final labels no point labelled -1 lies within eps of a core
\* point; a point the scan left as noise is relabelled when a later cluster
\* reaches it.
C2_NoNoiseNearCore ==
    DbscanDone =>
        \A p, q \in Indices :
            (IsCore(distanceMatrix, eps, minSamples, p) /\ Le(Dm(p, q), eps))
                => labels[q + 1] # -1

C2_Witness ==
    /\ DbscanDone
    /\ \E q \in noiseSeen : labels[q + 1] >= 0

\* C3: the non-negative labels are exactly 0..clusterId-1, cluster c holds
\* the point the scan started it from, and these seeds ascend with c.
C3_ClusterIdsConsecutive ==
    DbscanDone =>
        /\ {l \in Range(labels) : l # -1} = 0..(clusterId - 1)
        /\ Len(seeds) = clusterId
        /\ \A c \in 1..Len(seeds) : labels[seeds[c] + 1] = c - 1
        /\ \A c \in 1..(Len(seeds) - 1) : seeds[c] < seeds[c + 1]

C3_Witness ==
    /\ DbscanDone
    /\ clusterId >= 2
    /\ seeds[2] > 1

\* the routes that lie within the threshold of some other route
Grouped == {i \in Indices : \E j \in Indices : j # i /\ Le(Dm(i, j), similarityThreshold)}

\* ScenarioSimilar routes pairwise within the threshold, every other route
\* farther than the threshold from every other route
ScenarioHolds ==
    /\ Cardinality(Grouped) = ScenarioSimilar
    /\ \A i, j \in Grouped : Le(Dm(i, j), similarityThreshold)
    /\ \A i \in Indices \ Grouped : \A j \in Indices :
          j # i => Gt(Dm(i, j), similarityThreshold)

\* C4: with ScenarioSimilar (5) routes pairwise within the threshold 0.25 and
\* the (3) others farther than 0.25 from every route, minMatches 2, the
\* result is one pattern holding exactly the similar routes, every other
\* route labelled -1, in every arrangement of the routes.
C4_OnePattern ==
    (pc = "done" /\ ScenarioHolds) =>
        /\ result.patterns = 1
        /\ result.uniqueRoutes = Len(routes) - ScenarioSimilar
        /\ \A i \in Indices : result.labels[i + 1] = IF i \in Grouped THEN 0 ELSE -1

C4_Witness ==
    /\ pc = "done" /\ ScenarioHolds
    /\ Len(routes) = ScenarioRoutes
    /\ 0 \notin Grouped
    /\ \E i, j \in Grouped : Dm(i, j) # Z(0)
    /\ result.patterns = 1

\* C5: createRouteSignature samples at most 50 points (at most 49 bearings)
\* from any input of at least 2 points, with a uniform stride, the final
\* point being the last sampled point.
C5_AtMostFiftySamples ==
    (pc = "createRouteSignature.done" /\ Len(args[1]) >= 2) =>
        LET n == Len(args[1])
            idx == SampledIndices(n)
        IN  /\ Len(ret.distances) <= TargetPoints
            /\ Len(ret.bearings) <= TargetPoints - 1
            /\ Len(ret.distances) = Len(idx)
            /\ idx[Len(idx)] = n - 1
            /\ \A j \in 2..(Len(idx) - 1) : idx[j] - idx[j - 1] = idx[2] - idx[1]

\* C6: compareSignatures returns a number in [0,1], never NaN, for every pair
\* of signatures createRouteSignature can produce.
C6_ScoreInUnitInterval ==
    (pc = "dbscan") => \A i, j \in Indices : InUnitInterval(Dm(i, j))

\* C7: compareSignatures gives the same outcome for (a, b) and for (b, a),
\* and the similarity matrix is symmetric with a zero diagonal.
C7_Symmetric ==
    (pc \in {"dbscan", "count", "done"} /\ Len(distanceMatrix) > 0) =>
        \A i, j \in Indices :
            /\ Dm(i, j) = Dm(j, i)
            /\ i = j => Dm(i, j) = Z(0)
            /\ i # j => Dm(i, j) = CompareSignatures(signatures[j + 1], signatures[i + 1])
            /\ CompareSignatures(signatures[i + 1], signatures[j + 1])
                 = CompareSignatures(signatures[j + 1], signatures[i + 1])

C7_Witness ==
    /\ pc = "dbscan"
    /\ Len(routes) = 2
    /\ signatures[1].totalDistance # signatures[2].totalDistance
    /\ IsNum(Dm(0, 1)) /\ Lt(Z(0), Dm(0, 1)) /\ Lt(Dm(0, 1), Z(1))

\* C8: the same coordinate sequence (of at least two points) passed as two
\* routes scores 0, and the two routes fall in one pattern for minMatches 2.
C8_SameRouteScoresZero ==
    (Len(routes) = 2 /\ routes[1] = routes[2] /\ Len(routes[1]) >= 2) =>
        /\ pc \in {"dbscan", "count", "done"} => Dm(0, 1) = Z(0)
        /\ pc = "done" => result.labels = <<0, 0>>

\* the bearings of a route travelled the other way: the sequence in reverse
\* order, every bearing turned by 180 degrees
ReverseBearings(b) ==
    [j \in 1..Len(b) |-> JsMod(Add(b[Len(b) + 1 - j], Z(180)), 360)]

IsPalindrome(b) == \A j \in 1..Len(b) : b[j] = b[Len(b) + 1 - j]

\* C9 (as stated): a route against the same route travelled the other way
\* scores near 1.0 (here: at least 0.9) in bearing shape, for every shape.
C9_ReversedScoresOne ==
    (pc = "compareBearingSequences.done" /\ args[2] = ReverseBearings(args[1]))
        => Ge(ret, Q(9, 10))

\* C9 (amended): a route of at most 30 bearings whose bearing sequence reads
\* the same in both directions (a straight route in particular) scores
\* exactly 1.0 against the same route travelled the other way.
C9_PalindromeReversedScoresOne ==
    (/\ pc = "compareBearingSequences.done"
     /\ args[2] = ReverseBearings(args[1])
     /\ Len(args[1]) <= BearingTargetLen
     /\ IsPalindrome(args[1]))
        => ret = Z(1)

C9_Witness ==
    /\ pc = "compareBearingSequences.done"
    /\ args[2] = ReverseBearings(args[1])
    /\ IsPalindrome(args[1])
    /\ Len(args[1]) = 3
    /\ args[1][1] # args[1][2]
    /\ ret = Z(1)

\* the dataset the outermost call was given
EntryData ==
    IF outcome.of = "clusterActivities" THEN ca.activities
    ELSE IF outcome.of = "findOptimalK" THEN fk.data
    ELSE km.data

ClusterDone == pc = "done" /\ outcome.kind # "pending" /\ outcome.of # "none"

\* C10: clusterActivities, findOptimalK and kMeans called with an empty
\* dataset do not throw: they return an empty label array, and (where the
\* result has one) a silhouette score of 0
C10_EmptyDatasetReturnsNeutral ==
    (ClusterDone /\ Len(EntryData) = 0) =>
        /\ outcome.kind = "return"
        /\ outcome.value.labels = <<>>
        /\ (outcome.of # "kMeans" => outcome.value.silhouetteScore = Z(0))

\* what kMeans returned has n labels in [0, k) and k centroids of dimension d
KMeansShape(value, data, k) ==
    /\ Len(value.labels) = Len(data)
    /\ \A i \in 1..Len(value.labels) : value.labels[i] \in 0..(k - 1)
    /\ Len(value.centroids) = k
    /\ \A c \in 1..Len(value.centroids) : Len(value.centroids[c]) = Len(data[1])

\* the kRange the outermost call was given (kMeans has none)
EntryKRange == IF outcome.of = "clusterActivities" THEN ca.kRange ELSE fk.kRange

C12_Deterministic ==
    (ClusterDone /\ outcome.of = "kMeans" /\ ret # <<>>) => outcome = ret[1]

\* a second run went through at least one centroid update and returned
C12_Witness ==
    /\ ClusterDone
    /\ outcome.of = "kMeans"
    /\ ret # <<>>
    /\ outcome.kind = "return"
    /\ km.iter >= 1
    /\ km.k >= 2
    /\ km.rng # km.seed

\* C13: for any dataset and any label array of its length with non-negative
\* labels, silhouetteScore returns a number in [-1, 1]
C13_ScoreWithinBounds ==
    pc = "silhouetteScore.done" => (IsNum(ret) /\ Le(Z(-1), ret) /\ Le(ret, Z(1)))

\* every point carries the same label
SingleLabel(l) == \A i, j \in 1..Len(l) : l[i] = l[j]

\* C14: silhouetteScore returns exactly 0 when all points carry the same
\* label, whatever its value, and when the dataset is empty
C14_SingleClusterScoresZero ==
    (pc = "silhouetteScore.done" /\ (SingleLabel(args[2]) \/ Len(args[1]) = 0)) => ret = Z(0)

\* findOptimalK or clusterActivities returned a result for at least one
\* candidate
OptimalKReturned ==
    /\ ClusterDone
    /\ outcome.of \in {"findOptimalK", "clusterActivities"}
    /\ outcome.kind = "return"
    /\ Len(outcome.value.silhouetteScores) > 0

\* the positions of the score curve that no other position exceeds
TopPositions(curve) ==
    {p \in 1..Len(curve) : \A q \in 1..Len(curve) : ~Gt(curve[q].score, curve[p].score)}

\* C15 as stated: the returned k has the highest silhouette score of the
\* curve, and among the candidates that tie for it, it is the smallest k
C15_SmallestBestK ==
    OptimalKReturned =>
        LET curve == outcome.value.silhouetteScores
        IN  \E p \in TopPositions(curve) :
               /\ outcome.value.k = curve[p].k
               /\ \A q \in TopPositions(curve) : curve[p].k <= curve[q].k

\* C15, amended: the returned k has the highest silhouette score of the
\* curve, and among the candidates that tie for it, it is the first of kRange
C15_FirstBestK ==
    OptimalKReturned =>
        LET curve == outcome.value.silhouetteScores
        IN  \E p \in TopPositions(curve) :
               /\ outcome.value.k = curve[p].k
               /\ outcome.value.silhouetteScore = curve[p].score
               /\ \A q \in TopPositions(curve) : p <= q

\* two candidates tied for the highest score, and one below it
C15_Witness ==
    /\ OptimalKReturned
    /\ Cardinality(TopPositions(outcome.value.silhouetteScores)) >= 2
    /\ Cardinality(TopPositions(outcome.value.silhouetteScores))
          < Len(outcome.value.silhouetteScores)
    /\ outcome.value.k > 2

Standardized ==
    /\ outcome.of = "clusterActivities"
    /\ pc \notin {"clusterActivities", "standardize"}
    /\ outcome.kind # "throw"

\* the feature rows of the activities, as extracted
RawRows ==
    [i \in 1..Len(ca.activities) |->
        FeatureVector(ca.activities[i], ca.featureNames, Len(ca.featureNames))]

\* column j of rows holds one value only
ConstantColumn(rows, j) == \A i \in 1..Len(rows) : rows[i][j] = rows[1][j]

\* the mean of column j of rows
ColumnMean(rows, j) ==
    Div(SumSeq([i \in 1..Len(rows) |-> rows[i][j]], Len(rows)), Z(Len(rows)))

\* the population standard deviation of column j of rows
ColumnStd(rows, j) ==
    MathSqrt(Div(SumSeq([i \in 1..Len(rows) |->
                            Mul(Sub(rows[i][j], ColumnMean(rows, j)),
                                Sub(rows[i][j], ColumnMean(rows, j)))], Len(rows)),
                 Z(Len(rows))))

C18_OneNumberPerKey ==
    (outcome.of = "clusterActivities" /\ pc # "clusterActivities") =>
        \A i \in 1..Len(ca.data) : Len(ca.data[i]) = Len(ca.featureNames)

\* every number of every row of rows is finite
FiniteRows(rows) == \A i \in 1..Len(rows) : \A j \in 1..Len(rows[i]) : IsNum(rows[i][j])

\* C19: for a non-empty activity list with finite non-negative attributes,
\* every number of the ClusterResult of clusterActivities is finite
C19_ResultIsFinite ==
    (ClusterDone /\ outcome.of = "clusterActivities" /\ Len(ca.activities) >= 1) =>
        /\ outcome.kind = "return"
        /\ FiniteRows(outcome.value.rawData)
        /\ FiniteRows(outcome.value.scaledData)
        /\ FiniteRows(outcome.value.centroids)
        /\ IsNum(outcome.value.silhouetteScore)
        /\ \A p \in 1..Len(outcome.value.silhouetteScores) :
              IsNum(outcome.value.silhouetteScores[p].score)

\* findSimilarRoutes returned for at least one route
RoutesDone == pc = "done" /\ outcome.of = "none" /\ Len(routes) >= 1

\* the routes labelled p
PatternMembers(p) == {i \in 1..Len(result.labels) : result.labels[i] = p}

RECURSIVE PatternSizes(_)
\* the sizes of the patterns 0..m-1, added up
PatternSizes(m) == IF m = 0 THEN 0 ELSE PatternSizes(m - 1) + Cardinality(PatternMembers(m - 1))

\* C20: for n >= 1 routes findSimilarRoutes returns one label per route, each
\* -1 or in [0, patterns); patterns is the number of distinct labels >= 0,
\* uniqueRoutes the number of labels -1; uniqueRoutes and the sizes of the
\* patterns add up to n; patternColors has patterns entries
C20_ResultCountsAgree ==
    RoutesDone =>
        /\ Len(result.labels) = Len(routes)
        /\ \A i \in 1..Len(result.labels) :
              result.labels[i] = -1 \/ result.labels[i] \in 0..(result.patterns - 1)
        /\ result.patterns = Cardinality({result.labels[i] : i \in 1..Len(result.labels)} \ {-1})
        /\ result.uniqueRoutes = Cardinality(PatternMembers(-1))
        /\ result.uniqueRoutes + PatternSizes(result.patterns) = Len(routes)
        /\ Len(result.patternColors) = result.patterns

\* a pattern of two routes beside a unique route
C20_Witness ==
    /\ RoutesDone
    /\ result.patterns >= 1
    /\ result.uniqueRoutes >= 1
    /\ Cardinality(PatternMembers(0)) >= 2

\* C21: getClusterColor(i) is entry i mod 8 of its palette;
\* getRouteMatchColor(l) is entry l mod 10 of its palette for l >= 0 and
\* gray for l = -1; every such label has a defined colour; patternColors[i]
\* equals getRouteMatchColor(i)
C21_ColoursCycle ==
    /\ pc = "getClusterColor.done" =>
          /\ ret = ClusterPalette[(args[1] % 8) + 1]
          /\ ret # "undefined"
    /\ pc = "getRouteMatchColor.done" =>
          /\ ret = IF args[1] = -1 THEN "#808080" ELSE PatternPalette[(args[1] % 10) + 1]
          /\ ret # "undefined"
    /\ (pc = "done" /\ outcome.of = "none") =>
          \A i \in 1..Len(result.patternColors) :
             result.patternColors[i] = GetRouteMatchColor(i - 1)

\* a route label past the end of the palette got the colour of l - 10
C21_Witness ==
    /\ pc = "getRouteMatchColor.done"
    /\ args[1] >= 10
    /\ ret = PatternPalette[args[1] - 9]

\* C22: for the two groups of three points and kRange = [2, 3], findOptimalK
\* returns k = 2 with a silhouette score above 0.5, the three low points
\* sharing one label and the three high points the other
C22_TwoBlobs ==
    (ClusterDone /\ outcome.of = "findOptimalK" /\ fk.kRange = << 2, 3 >>
        /\ Len(fk.data) = 6) =>
        /\ outcome.kind = "return"
        /\ outcome.value.k = 2
        /\ Gt(outcome.value.silhouetteScore, Q(1, 2))
        /\ Len(outcome.value.labels) = 6
        /\ outcome.value.labels[1] = outcome.value.labels[2]
        /\ outcome.value.labels[2] = outcome.value.labels[3]
        /\ outcome.value.labels[4] = outcome.value.labels[5]
        /\ outcome.value.labels[5] = outcome.value.labels[6]
        /\ outcome.value.labels[1] # outcome.value.labels[4]

\* the dataset as the spec gives it was clustered, both candidates scored
C22_Witness ==
    /\ ClusterDone
    /\ outcome.of = "findOptimalK"
    /\ fk.data = Blobs(0, 0)
    /\ outcome.kind = "return"
    /\ Len(outcome.value.silhouetteScores) = 2
    /\ outcome.value.labels = << 1, 1, 1, 0, 0, 0 >>

\* C23: the kMeans loop terminates: an assignment pass only starts while
\* fewer than maxIterations passes were made, a pass that changes no label is
\* followed by the return and any other pass by a centroid update, and the
\* call ends
C23_LoopTerminates ==
    /\ [](pc \in {"kMeans.assign", "kMeans.update"} => km.iter < km.maxIterations)
    /\ [][pc = "kMeans.assign" =>
            pc' = IF km'.labels = km.labels THEN "kMeans.return" ELSE "kMeans.update"]_vars
    /\ [][pc = "kMeans.update" =>
            /\ km'.iter = km.iter + 1
            /\ pc' = IF km'.iter < km.maxIterations THEN "kMeans.assign"
                     ELSE "kMeans.return"]_vars
    /\ <>(pc = "done")

\* the loop was left before maxIterations, after at least one update
C23_Witness ==
    /\ pc = "kMeans.return"
    /\ outcome.of = "kMeans"
    /\ km.iter >= 1
    /\ km.iter < km.maxIterations

RECURSIVE MemberSum(_, _, _, _, _)
\* the sum of coordinate j over those of the first m points labelled c
MemberSum(data, lab, c, j, m) ==
    IF m = 0 THEN Z(0)
    ELSE IF lab[m] = c THEN Add(MemberSum(data, lab, c, j, m - 1), data[m][j])
         ELSE MemberSum(data, lab, c, j, m - 1)

\* the points labelled c
Members(lab, c) == {i \in 1..Len(lab) : lab[i] = c}

\* C24: in a centroid update, a centroid without member keeps its coordinates,
\* which are numbers, and a centroid with members becomes the mean of its
\* members in every coordinate
C24_UpdateKeepsEmpty ==
    [][pc = "kMeans.update" =>
         \A c \in 1..km.k :
            IF Members(km.labels, c - 1) = {}
            THEN /\ km'.centroids[c] = km.centroids[c]
                 /\ \A j \in 1..Len(km.centroids[c]) : km'.centroids[c][j].k = "num"
            ELSE \A j \in 1..Len(km.data[1]) :
                    km'.centroids[c][j] =
                        Div(MemberSum(km.data, km.labels, c - 1, j, Len(km.data)),
                            Z(Cardinality(Members(km.labels, c - 1))))]_vars

\* an update was made with one cluster empty and another one not
C24_Witness ==
    /\ pc \in {"kMeans.assign", "kMeans.return"}
    /\ outcome.kind = "pending"
    /\ km.iter >= 1
    /\ \E c \in 1..km.k : Members(km.labels, c - 1) = {}
    /\ \E c \in 1..km.k : Members(km.labels, c - 1) # {}

RECURSIVE SeedAfter(_, _)
\* the generator state after m draws from seed
SeedAfter(seed, m) == IF m = 0 THEN seed ELSE SeededNext(SeedAfter(seed, m - 1))

\* the probabilities of lines 104-110 for the centroids chosen so far
SeedProbabilities(data, centroids) ==
    LET distances == SeedDistances(data, centroids)
        sum == SumSeq(distances, Len(distances))
    IN  [i \in 1..Len(distances) |-> Div(distances[i], sum)]

\* no cumulative probability reaches the draw rand
NoneReaches(probabilities, rand) ==
    \A i \in 1..Len(probabilities) : ~Le(rand, SumSeq(probabilities, i))

\* C25: in every seeding round in which no cumulative probability reaches
\* the draw, the centroid added is the last data point
C25_FallbackIsLast ==
    (pc = "kMeans.assign" /\ km.iter = 0) =>
        \A c \in 2..km.k :
            NoneReaches(SeedProbabilities(km.data, SubSeq(km.centroids, 1, c - 1)),
                        SeededValue(SeedAfter(km.seed, c)))
                => km.centroids[c] = km.data[Len(km.data)]

\* the generator's step on an integer state, the product taken by the factors
\* 71 and 131 of 9301
StepExact(state) ==
    ((((state % RngModulus) * 71) % RngModulus) * 131 + RngIncrement) % RngModulus

RECURSIVE StepsExact(_, _)
\* the state after m steps
StepsExact(state, m) == IF m = 0 THEN state ELSE StepExact(StepsExact(state, m - 1))

\* kMeans drew its k numbers from the seed as SeededRandom.next is described:
\* the call did not throw, the state is the integer the recurrence gives,
\* within [0, 233280), and the first centroid is, until the first update, the
\* point at floor(state / 233280 * n), an index within [0, n)
SeededAsDescribed ==
    LET n == Len(km.data)
        first == StepExact(km.seed.n)
        firstIdx == (first * n) \div RngModulus
    IN  /\ outcome.kind # "throw"
        /\ IsNum(km.rng)
        /\ km.rng = Z(StepsExact(km.seed.n, km.k))
        /\ km.rng.n >= 0 /\ km.rng.n < RngModulus
        /\ Le(Z(0), SeededValue(km.rng)) /\ Lt(SeededValue(km.rng), Z(1))
        /\ firstIdx >= 0 /\ firstIdx < n
        /\ (pc = "kMeans.assign" /\ km.iter = 0) => km.centroids[1] = km.data[firstIdx + 1]

\* C26, for seeds whose product with 9301 a double holds exactly: every draw
\* sets the state to (state * 9301 + 49297) mod 233280, an integer in
\* [0, 233280), returns state / 233280 in [0, 1), and the first centroid index
\* lies in [0, n)
C26_SeededExactSeeds ==
    (pc # "kMeans" /\ Len(km.data) >= 1 /\ IsNum(km.seed)) => SeededAsDescribed

\* C26 as stated, for every non-negative integer seed
C26_SeededEverySeed ==
    (pc # "kMeans" /\ Len(km.data) >= 1) => SeededAsDescribed

\* three numbers were drawn from a seed beyond the modulus
C26_Witness ==
    /\ pc = "kMeans.assign"
    /\ km.iter = 0
    /\ km.k = 3
    /\ Len(km.data) >= 2
    /\ IsNum(km.seed)
    /\ km.seed.n > RngModulus

\* norm is bearings resampled to targetLen values: that many numbers in
\* [0, 360), from the first bearing to the last
Resampled(norm, bearings, targetLen) ==
    /\ Len(norm) = targetLen
    /\ \A i \in 1..Len(norm) : IsNum(norm[i]) /\ Le(Z(0), norm[i]) /\ Lt(norm[i], Z(360))
    /\ norm[1] = bearings[1]
    /\ norm[Len(norm)] = bearings[Len(bearings)]

\* C27: for two non-empty sequences of bearings in [0, 360),
\* compareBearingSequences resamples both to min(m, n, 30) numbers in
\* [0, 360), the first bearing first and the last bearing last
C27_ResampledInRange ==
    pc = "compareBearingSequences.done" =>
        LET targetLen == MinInt(MinInt(Len(args[1]), Len(args[2])), BearingTargetLen)
        IN  \A s \in 1..2 :
                Resampled(InterpolateBearings(args[s], targetLen), args[s], targetLen)

\* the points i and j are core points within eps of each other
CoreNeighbours(i, j) ==
    /\ IsCore(distanceMatrix, eps, minSamples, i)
    /\ IsCore(distanceMatrix, eps, minSamples, j)
    /\ Le(Dm(i, j), eps)

\* C28: for a symmetric matrix with zero diagonal, two core points within eps
\* of each other end with the same label, which is not -1
C28_CoreNeighboursShareLabel ==
    DbscanDone =>
        \A i, j \in Indices :
            CoreNeighbours(i, j) => (labels[i + 1] = labels[j + 1] /\ labels[i + 1] >= 0)

\* a chain of three core points ended in one cluster: the outer two are not
\* within eps of each other, and the scan met an outer one first
C28_Witness ==
    /\ DbscanDone
    /\ pc = "count"
    /\ \E a, b, c \in Indices :
          /\ a < b /\ a < c
          /\ CoreNeighbours(a, b)
          /\ CoreNeighbours(b, c)
          /\ ~Le(Dm(a, c), eps)
          /\ labels[a + 1] = labels[c + 1]
          /\ labels[a + 1] >= 0

\* centroid c (1-based) is the mean of the points labelled with it
IsMeanOfMembers(c) ==
    \A j \in 1..Len(km.data[1]) :
        km.centroids[c][j] =
            Div(MemberSum(km.data, km.labels, c - 1, j, Len(km.data)),
                Z(Cardinality(Members(km.labels, c - 1))))

\* the label of point i is the lowest index among the centroids nearest to it
IsNearestLowest(i) ==
    LET dist(c) == EuclideanDistance(km.data[i], km.centroids[c])
        own == km.labels[i] + 1
    IN  /\ own \in 1..km.k
        /\ \A c \in 1..km.k : ~Lt(dist(c), dist(own))
        /\ \A c \in 1..(own - 1) : Lt(dist(own), dist(c))

\* C29: when kMeans leaves its loop because a pass changed no label, every
\* centroid with members is the mean of its members and every label is the
\* lowest-index nearest centroid
C29_ConvergedCentroidsAreMeans ==
    (pc = "kMeans.return" /\ km.iter < km.maxIterations) =>
        /\ \A c \in 1..km.k : Members(km.labels, c - 1) # {} => IsMeanOfMembers(c)
        /\ \A i \in 1..Len(km.data) : IsNearestLowest(i)

\* the last answer of the API for id, "none" before the first
RECURSIVE LastOf(_, _, _)
LastOf(log, id, m) ==
    IF m = 0 THEN "none"
    ELSE IF log[m][1] = id THEN log[m][2] ELSE LastOf(log, id, m - 1)

\* C30: an activity whose request was answered with HTTP 429 is not reported
\* to onProgress as a null stream but waits in a flight or in the queue to be
\* fetched again; at most concurrency requests are in flight; and the promise
\* is resolved only with the queue empty and nothing in flight
C30_RateLimitedIsRetried ==
    /\ \A id \in 1..MaxIds :
          LastOf(served, id, Len(served)) = "429" =>
              /\ LastOf(progress, id, Len(progress)) # "null"
              /\ \/ \E f \in 1..Len(flights) : flights[f].id = id
                 \/ \E q \in 1..Len(queue) : queue[q] = id
    /\ Len(flights) <= concurrency
    /\ active = Len(flights)
    /\ pc = "fetchStreamsBatch.resolved" => (Len(queue) = 0 /\ active = 0)

\* no flight ever waits to requeue its id: the retry of lines 190-193 is
\* never taken
NoFlightWaits == \A f \in 1..Len(flights) : flights[f].at # "wait"

\* the bounds on the requests in flight and on the resolution, on their own
BatchBounded ==
    /\ Len(flights) <= concurrency
    /\ active = Len(flights)
    /\ pc = "fetchStreamsBatch.resolved" => (Len(queue) = 0 /\ active = 0)

====
